---- MODULE Spec2Model ----
(***************************************************************************)
(* Pulse Atlas: the signal store (storage.py), the scoring passes          *)
(* (score_signals.py, analyze_signal.py), the Decision Engine              *)
(* (decision_engine.py), the Object Index (oii_snapshot.py), the pipeline  *)
(* trigger (run_all.py) and the adapters (gaea_fetch.py, akash_fetch.py,   *)
(* fetch_rss.py, rss_fetch.py, fetch_bittensor_metrics.py).                *)
(*                                                                         *)
(* Representation.  A Python / SQLite value is a tagged record: NULL is    *)
(* None / SQL NULL, Str(s) a string, Num(n) a number.  Scores and shares   *)
(* are fixed-point numbers with Scale units per 1.0 (0.35 is 350).  The    *)
(* emoji colours of the source are written as their code points:           *)
(* "U+1F534" red circle, "U+1F7E1" yellow circle, "U+1F7E2" green circle,  *)
(* "U+26AA" white circle, "U+26AB" black circle.                           *)
(***************************************************************************)
EXTENDS Integers, Sequences, FiniteSets, TLC

VARIABLES
    schema,         \* signals table: [cols, notnull, dflt] (PRAGMA table_info)
    signals,        \* signals table rows; the row at index i has id i
    rss_seen,       \* rss_seen table: the hashes fetch_rss has marked
    actions,        \* actions table rows, in insertion order
    engine_state,   \* engine_state row "engine:last_id": its v, or NULL
    ran,            \* history: Len(signals) at the last completed engine run, or -1
    procs,          \* processes running side by side: position and local state
    lock,           \* the process that holds the database write lock, or NoProc
    object_index,   \* object_index table: object -> the row of the latest snapshot
    pipeline,       \* run_all.main: its position, its exit code (-1 while it runs)
                    \* and per stage the exit code, the sources whose fetch
                    \* failed and the sources that gave a new item
    cursors,        \* cursors table: source -> last_seen
    upstream,       \* akash-network/node on GitHub: the releases it lists, newest
                    \* first, and the number of releases published so far
    web,            \* what gaea_fetch's sources serve: the releases of the org's
                    \* repositories and the html of each site page
    documents,      \* documents table rows; the row at index i has id i
    doc_pages,      \* doc_pages table rows
    pages_dir,      \* data/artifacts/pages: the png files, as <<doc_id, page>>
    last            \* the most recent call: its name, input and result

pdfVars == <<documents, doc_pages, pages_dir>>
akashVars == <<cursors, upstream, web, pdfVars>>
downstreamVars == <<procs, lock, object_index, pipeline, akashVars>>
engineVars == <<actions, engine_state, ran, downstreamVars>>

(***************************************************************************)
(* Bounds                                                                  *)
(***************************************************************************)
MaxRows == 2
MaxSignals == 2
MaxLimit == 2

(***************************************************************************)
(* Values                                                                  *)
(***************************************************************************)
Scale == 1000

NULL == [null |-> TRUE]
Str(s) == [s |-> s]
Num(n) == [n |-> n]
IsStr(v) == DOMAIN v = {"s"}
IsNum(v) == DOMAIN v = {"n"}

\* Python truthiness: None, "" and 0 are falsy.
Truthy(v) == v # NULL /\ v # Str("") /\ v # Num(0)

\* Python `a or b`.
Or(a, b) == IF Truthy(a) THEN a ELSE b

\* dict.get(k): None when the key is absent.
Get(row, k) == IF k \in DOMAIN row THEN row[k] ELSE NULL

\* dict with row[k] = v set (key added when absent).
Put(row, k, v) == [c \in DOMAIN row \cup {k} |-> IF c = k THEN v ELSE row[c]]

SetMin(S) == CHOOSE x \in S : \A y \in S : x <= y
SetMax(S) == CHOOSE x \in S : \A y \in S : x >= y

\* s without the leading and trailing characters that are in `chars`.
StripChars(s, chars) ==
    LET keep == {i \in 1..Len(s) : SubSeq(s, i, i) \notin chars}
    IN  IF keep = {} THEN "" ELSE SubSeq(s, SetMin(keep), SetMax(keep))

\* str.strip() (blanks and newlines: the model's strings hold no other whitespace).
Strip(s) == StripChars(s, {" ", "\n"})

\* str.strip("'") on a single-quoted SQL literal.
StripQuotes(s) == StripChars(s, {"'"})

(***************************************************************************)
(* storage.py: the signals table                                           *)
(***************************************************************************)
\* CREATE TABLE signals of init_db (id is the sequence index).
BaseCols ==
    {"ts", "source", "origin", "title", "text", "url", "tags",
     "score", "color", "label", "rationale"}

BaseNotNull == {"ts", "source", "text", "score", "color", "label"}

\* rss_fetch.ensure_columns adds these two, nullable and without default.
RssCols == {"summary", "raw"}

\* Columns of later schema versions that save_signal knows defaults for.
ExtraCols == {"object", "kind", "level", "project"}

AllCols == BaseCols \cup RssCols \cup ExtraCols

NoDefaults == [c \in AllCols |-> NULL]

\* The schema versions the store starts under: the one init_db creates (which
\* rss_fetch.ensure_columns later widens) and an evolved one with the added
\* columns kind (NOT NULL, no default) and level (NOT NULL DEFAULT 'neutral').
SchemaV1 == [cols |-> BaseCols, notnull |-> BaseNotNull, dflt |-> NoDefaults]
SchemaV3 ==
    [cols |-> AllCols,
     notnull |-> BaseNotNull \cup {"kind", "level"},
     dflt |-> [NoDefaults EXCEPT !["level"] = Str("'neutral'")]]

\* datetime.now(timezone.utc).isoformat() at the time of the call.
NowTs == Str("2026-11-04T00:00:00+00:00")

\* The partial unique index idx_signals_source_url_unique covers a row.
Indexed(r) ==
    /\ r["source"] # NULL /\ r["source"] # Str("")
    /\ r["url"] # NULL /\ r["url"] # Str("")

\* Mutant: the unique index is missing, so nothing ever conflicts.
UniqueConflictNoIndex(rows, r) == FALSE

\* A stored row conflicts with the candidate on the unique index.
UniqueConflict(rows, r) ==
    /\ Indexed(r)
    /\ \E i \in 1..Len(rows) :
          /\ Indexed(rows[i])
          /\ rows[i]["source"] = r["source"]
          /\ rows[i]["url"] = r["url"]

\* The table row an INSERT of `vals` (column -> value) makes: a column the
\* statement omits takes its DEFAULT, or NULL.
TableRow(sch, vals) ==
    [c \in AllCols |->
        IF c \in DOMAIN vals THEN vals[c]
        ELSE IF c \in sch.cols /\ sch.dflt[c] # NULL THEN Str(StripQuotes(sch.dflt[c].s))
        ELSE NULL]

NotNullViolation(sch, r) == \E c \in sch.notnull : r[c] = NULL

\* base_source of save_signal.
BaseSource(row) ==
    LET v == Or(Get(row, "source"), Str(""))
        s == Strip(v.s)
    IN  IF s = "" THEN Str("atlas") ELSE Str(s)

BaseTs(row) == Or(Or(Get(row, "ts"), Get(row, "created_at")), NowTs)
BaseLabel(row) == Or(Or(Get(row, "label"), Get(row, "project")), BaseSource(row))
BaseTitle(row) == Or(Get(row, "title"), BaseLabel(row))
BaseText(row) == Or(Get(row, "text"), Str(""))
BaseUrl(row) == Or(Get(row, "url"), Str(""))

DefaultKeys ==
    {"ts", "created_at", "source", "origin", "project", "label", "title", "text",
     "summary", "url", "kind", "horizon", "sentiment", "score", "color", "level"}

\* The `defaults` dict of save_signal.
Defaults(row, k) ==
    CASE k \in {"ts", "created_at"} -> BaseTs(row)
      [] k = "source" -> BaseSource(row)
      [] k = "origin" -> Or(Get(row, "origin"), BaseSource(row))
      [] k = "project" -> Or(Get(row, "project"), BaseLabel(row))
      [] k = "label" -> BaseLabel(row)
      [] k = "title" -> BaseTitle(row)
      [] k = "text" -> BaseText(row)
      [] k = "summary" -> Or(Get(row, "summary"), Or(BaseText(row), BaseTitle(row)))
      [] k = "url" -> BaseUrl(row)
      [] k = "kind" -> Or(Get(row, "kind"), Str("event"))
      [] k = "horizon" -> Or(Get(row, "horizon"), Str("T2"))
      [] k = "sentiment" -> Or(Get(row, "sentiment"), Str("neutral"))
      [] k = "score" -> IF Get(row, "score") # NULL THEN Get(row, "score") ELSE Num(350)
      [] k = "color" -> Or(Or(Get(row, "color"), Get(row, "level")), Str("neutral"))
      [] k = "level" -> Or(Get(row, "level"), Str("neutral"))

\* for k, v in defaults.items(): if k in cols and k not in row: row[k] = v
WithDefaults(sch, row) ==
    [k \in DOMAIN row \cup (DefaultKeys \cap sch.cols) |->
        IF k \in DOMAIN row THEN row[k] ELSE Defaults(row, k)]

\* The stopgap value of a NOT NULL column that is still missing or None.
Stopgap(sch, row, c) ==
    IF sch.dflt[c] # NULL THEN Str(StripQuotes(sch.dflt[c].s))
    ELSE CASE c \in {"ts", "created_at"} -> BaseTs(row)
           [] c = "label" -> BaseLabel(row)
           [] c = "source" -> BaseSource(row)
           [] c = "title" -> BaseTitle(row)
           [] c \in {"text", "summary", "url"} -> Str("")
           [] c = "score" -> Num(0)
           [] OTHER -> Str("")

\* Mutant: the stopgap loop tests `c not in row` only, not `row[c] is None`.
WithStopgapsMissingOnly(sch, row0, row) ==
    LET need == {c \in sch.notnull \cap sch.cols : c \notin DOMAIN row}
    IN  [k \in DOMAIN row \cup need |-> IF k \in need THEN Stopgap(sch, row0, k) ELSE row[k]]

\* for c in cols: if notnull[c] and (c not in row or row[c] is None): ...
WithStopgaps(sch, row0, row) ==
    LET need == {c \in sch.notnull \cap sch.cols : c \notin DOMAIN row \/ row[c] = NULL}
    IN  [k \in DOMAIN row \cup need |-> IF k \in need THEN Stopgap(sch, row0, k) ELSE row[k]]

\* The column -> value map save_signal hands to INSERT OR IGNORE.
InsertVals(sch, row) ==
    LET filled == WithStopgaps(sch, row, WithDefaults(sch, row))
    IN  [c \in sch.cols \cap DOMAIN filled |-> filled[c]]

\* INSERT OR IGNORE: the row is skipped on a unique or NOT NULL conflict.
InsertOrIgnore(sch, rows, vals) ==
    LET r == TableRow(sch, vals)
    IN  IF NotNullViolation(sch, r)
        THEN [rows |-> rows, rowcount |-> 0, outcome |-> "notnull"]
        ELSE IF UniqueConflict(rows, r)
        THEN [rows |-> rows, rowcount |-> 0, outcome |-> "duplicate"]
        ELSE [rows |-> Append(rows, r), rowcount |-> 1, outcome |-> "inserted"]

\* save_signal(row): returns 1 if inserted, 0 if ignored.
save_signal(row) ==
    LET vals == InsertVals(schema, row)
        res == InsertOrIgnore(schema, signals, vals)
    IN  /\ IF DOMAIN vals = {}
           THEN /\ last' = [op |-> "save_signal", row |-> row, ret |-> -1,
                            outcome |-> "RuntimeError"]
                /\ UNCHANGED signals
           ELSE /\ signals' = res.rows
                /\ last' = [op |-> "save_signal", row |-> row,
                            ret |-> IF res.rowcount = 1 THEN 1 ELSE 0,
                            outcome |-> res.outcome]
        /\ UNCHANGED schema

\* rss_fetch.ensure_columns: ALTER TABLE signals ADD COLUMN summary / raw.
ensure_columns ==
    /\ ~(RssCols \subseteq schema.cols)
    /\ schema' = [schema EXCEPT !.cols = @ \cup RssCols]
    /\ last' = [op |-> "ensure_columns", row |-> <<>>, ret |-> 0, outcome |-> "ok"]
    /\ UNCHANGED signals

(***************************************************************************)
(* String helpers of the scoring code                                      *)
(***************************************************************************)
\* `k in t` on strings: k is a substring of t.
Contains(t, k) ==
    \E i \in 1..(Len(t) - Len(k) + 1) : SubSeq(t, i, i + Len(k) - 1) = k

StartsWith(s, pre) == Len(s) >= Len(pre) /\ SubSeq(s, 1, Len(pre)) = pre
EndsWith(s, suf) == Len(s) >= Len(suf) /\ SubSeq(s, Len(s) - Len(suf) + 1, Len(s)) = suf

\* str.lower() of one character.
LowerChar(c) ==
    LET upper == "ABCDEFGHIJKLMNOPQRSTUVWXYZ"
        lower == "abcdefghijklmnopqrstuvwxyz"
        at == {i \in 1..Len(upper) : SubSeq(upper, i, i) = c}
    IN  IF at = {} THEN c ELSE SubSeq(lower, SetMin(at), SetMin(at))

\* str.lower(), by halves.
RECURSIVE Lower(_)
Lower(s) ==
    IF Len(s) = 0 THEN ""
    ELSE IF Len(s) = 1 THEN LowerChar(s)
    ELSE LET h == Len(s) \div 2
         IN  Lower(SubSeq(s, 1, h)) \o Lower(SubSeq(s, h + 1, Len(s)))

\* The first position at or after i of a character of `chars` in s, or Len(s)+1.
FindAny(s, chars, i) ==
    LET hits == {j \in i..Len(s) : SubSeq(s, j, j) \in chars}
    IN  IF hits = {} THEN Len(s) + 1 ELSE SetMin(hits)

\* " ".join(parts) of a sequence of strings.
RECURSIVE JoinBlank(_)
JoinBlank(parts) ==
    IF parts = <<>> THEN ""
    ELSE IF Len(parts) = 1 THEN parts[1]
    ELSE parts[1] \o " " \o JoinBlank(Tail(parts))

(***************************************************************************)
(* score_signals.py                                                        *)
(***************************************************************************)
GREEN == "green"
YELLOW == "yellow"
RED == "red"

KEYWORDS_RED ==
    {"ban", "banned", "regulation", "regulator", "sec", "fine", "lawsuit", "court",
     "sanction", "breach", "leak", "hack", "ransom", "exploit", "vulnerability", "cve",
     "critical", "surveillance", "blocked", "shutdown", "arrest", "fraud", "scam",
     "malware"}

KEYWORDS_GREEN ==
    {"release", "launched", "introducing", "announcing", "open source", "benchmark",
     "paper", "improves", "performance", "funding", "partnership", "integration",
     "upgrade", "stable", "tool", "sdk", "api", "security fix", "patch", "mitigation"}

KEYWORDS_YELLOW ==
    {"rumor", "report", "preview", "beta", "maybe", "analysis", "opinion", "thoughts",
     "discussion"}

\* HIGH_SIGNAL_DOMAINS, in Scale units.
HIGH_SIGNAL_DOMAINS ==
    [d \in {"openai.com", "blog.cloudflare.com", "arstechnica.com", "theverge.com",
            "schneier.com", "github.com", "lwn.net"} |->
        CASE d = "openai.com" -> 780
          [] d = "blog.cloudflare.com" -> 720
          [] d = "arstechnica.com" -> 650
          [] d = "theverge.com" -> 580
          [] d = "schneier.com" -> 700
          [] d = "github.com" -> 620
          [] d = "lwn.net" -> 680]

\* norm_text(*parts): the non-blank parts, stripped, joined by a blank, lowered.
norm_text(parts) ==
    Lower(JoinBlank(SelectSeq([i \in 1..Len(parts) |-> Strip(parts[i])],
                              LAMBDA q : q # "")))

\* urlparse(url).netloc: what follows "scheme://" up to the next "/", "?" or "#".
Netloc(url) ==
    LET colon == FindAny(url, {":"}, 1)
        rest == SubSeq(url, colon + 1, Len(url))
    IN  IF colon <= Len(url) /\ StartsWith(rest, "//")
        THEN SubSeq(rest, 3, FindAny(rest, {"/", "?", "#"}, 3) - 1)
        ELSE ""

domain_score(url) ==
    LET h0 == Lower(Netloc(url))
        host == IF StartsWith(h0, "www.") THEN SubSeq(h0, 5, Len(h0)) ELSE h0
        hits == {d \in DOMAIN HIGH_SIGNAL_DOMAINS : host = d \/ EndsWith(host, "." \o d)}
    IN  IF hits # {}
        THEN HIGH_SIGNAL_DOMAINS[CHOOSE d \in hits : TRUE]   \* no host matches two
        ELSE 450

\* score_signals.classify(text) -> (kscore, color, label)
score_classify(text) ==
    LET t == Lower(text)
        hit_red == \E k \in KEYWORDS_RED : Contains(t, k)
        hit_green == \E k \in KEYWORDS_GREEN : Contains(t, k)
        hit_yellow == \E k \in KEYWORDS_YELLOW : Contains(t, k)
    IN  IF hit_red /\ ~hit_green THEN <<720, RED, "risk/pressure">>
        ELSE IF hit_green /\ ~hit_red THEN <<660, GREEN, "progress">>
        ELSE IF hit_red /\ hit_green THEN <<600, YELLOW, "mixed">>
        ELSE IF hit_yellow THEN <<520, YELLOW, "watch">>
        ELSE <<480, YELLOW, "neutral">>

Max(a, b) == IF a >= b THEN a ELSE b
Min(a, b) == IF a <= b THEN a ELSE b

clamp(x) == Max(0, Min(Scale, x))

norm_color(c) ==
    LET d == Strip(c)
    IN  IF d \in {"U+1F7E2", "green"} THEN "U+1F7E2"
        ELSE IF d \in {"U+1F7E1", "yellow", "U+26AA", "white"} THEN "U+1F7E1"
        ELSE IF d \in {"U+1F534", "red"} THEN "U+1F534"
        ELSE "U+26AB"

(***************************************************************************)
(* analyze_signal.py                                                       *)
(***************************************************************************)
RISK_WORDS ==
    {"hack", "hacked", "exploit", "breach", "leak", "malware", "ransom", "scam",
     "fraud", "lawsuit", "sec", "investigation", "ban", "panic", "crash", "attack",
     "vulnerability", "critical"}

HYPE_WORDS ==
    {"launch", "released", "partnership", "upgrade", "milestone", "record", "surge",
     "breakthrough", "wins", "adoption"}

risk_hits(t) == Cardinality({w \in RISK_WORDS : Contains(t, w)})
hype_hits(t) == Cardinality({w \in HYPE_WORDS : Contains(t, w)})

\* analyze_signal.classify(title, text) -> (score, label, color, rationale)
analyze_classify(title, text) ==
    LET t == Lower(title \o "\n" \o text)
        r == risk_hits(t)
        h == hype_hits(t)
    IN  IF r >= 1 /\ r >= h
        THEN <<850, "risk", "U+1F534", "rule:risk hits=" \o ToString(r)>>
        ELSE IF h >= 2 /\ h > r
        THEN <<700, "hype", "U+1F7E2", "rule:hype hits=" \o ToString(h)>>
        ELSE <<350, "neutral", "U+26AA", "rule:neutral">>

(***************************************************************************)
(* Candidate envelopes handed to save_signal                               *)
(***************************************************************************)
ABSENT == [absent |-> TRUE]

\* The dict that holds the keys of `full` whose value is not ABSENT.
Envelope(full) == [k \in {k \in DOMAIN full : full[k] # ABSENT} |-> full[k]]

UrlV1 == Str("https://x/releases/v1")
UrlV2 == Str("https://x/releases/v2")

\* Envelopes that supply (at most) source and url.
EnvIdentity ==
    { Envelope([source |-> s, url |-> UrlV1]) :
        s \in {ABSENT, NULL, Str(""), Str("akash/github"), Str(" rss ")} }
    \cup { Envelope([source |-> Str("akash/github"), url |-> u]) : u \in {ABSENT, Str("")} }

\* {source, url} and one more key, present with the value None.
NullableKeys == {"ts", "text", "score", "color", "label", "url", "kind"}

EnvFields ==
    { Put([source |-> Str("akash/github"), url |-> UrlV2], k, NULL) : k \in NullableKeys }

\* Scenario A of the specification.
EnvScenarioA ==
    [source |-> Str("akash/github"), url |-> UrlV1,
     title |-> Str("v1.0.0"), body |-> Str("release notes")]

Envelopes == EnvIdentity \cup EnvFields \cup {EnvScenarioA}

(***************************************************************************)
(* The upsert layer alone: any sequence of save_signal calls               *)
(***************************************************************************)
\* The processes that may run decision_engine.main side by side.
Procs == {"p1", "p2"}
NoProc == "none"

\* A process that is not inside main.
IdleProc ==
    [pc |-> "idle", last_id |-> 0, n |-> 0, i |-> 0, max_id |-> 0,
     inserted |-> 0, hits |-> 0, pend |-> <<>>, state |-> ""]

Stages ==
    <<"gaea_fetch.py", "akash_fetch.py", "fetch_bittensor_metrics.py", "fetch_rss.py",
      "fetch_x.py", "rss_fetch.py", "oii_snapshot.py">>

\* run_all.main has not been started.
NotStarted ==
    [pc |-> 0, code |-> -1, exit |-> [k \in 1..Len(Stages) |-> -1],
     net |-> [k \in 1..Len(Stages) |-> {}], got |-> [k \in 1..Len(Stages) |-> {}]]

NoCall == [op |-> "none", row |-> <<>>, ret |-> 0, outcome |-> "none"]

\* Nothing has run downstream of the store.
InitDownstream ==
    /\ procs = [p \in Procs |-> IdleProc]
    /\ lock = NoProc
    /\ object_index = <<>>
    /\ pipeline = NotStarted
    /\ cursors = <<>>
    /\ upstream = [list |-> <<>>, published |-> 0]
    /\ web = [releases |-> <<>>, pages |-> <<>>]
    /\ documents = <<>>
    /\ doc_pages = <<>>
    /\ pages_dir = {}

\* The store after storage.init_db(), under each schema version.
InitUpsert ==
    /\ schema \in {SchemaV1, SchemaV3}
    /\ signals = <<>>
    /\ rss_seen = {}
    /\ actions = <<>>
    /\ engine_state = NULL
    /\ ran = -1
    /\ InitDownstream
    /\ last = NoCall

UpsertCall ==
    /\ \E row \in Envelopes : save_signal(row)
    /\ Len(signals') <= MaxRows
    /\ UNCHANGED <<rss_seen, engineVars>>

EnsureColumns ==
    /\ ensure_columns
    /\ UNCHANGED <<rss_seen, engineVars>>

NextUpsert == UpsertCall \/ EnsureColumns

vars == <<schema, signals, rss_seen, actions, engine_state, ran, procs, lock,
          object_index, pipeline, cursors, upstream, web, documents, doc_pages,
          pages_dir, last>>

SpecUpsert == InitUpsert /\ [][NextUpsert]_vars

NonEmpty(v) == v # NULL /\ v # Str("")

\* The ids of the stored rows with the given (source, url).
RowsWith(rows, src, url) ==
    {i \in 1..Len(rows) : rows[i]["source"] = src /\ rows[i]["url"] = url}

UniquePairs(rows) ==
    \A i, j \in 1..Len(rows) :
        (i # j /\ NonEmpty(rows[i]["source"]) /\ NonEmpty(rows[i]["url"]))
            => ~(rows[i]["source"] = rows[j]["source"] /\ rows[i]["url"] = rows[j]["url"])

C1_Step ==
    last'.op = "save_signal" =>
        LET src == Get(last'.row, "source")
            url == Get(last'.row, "url")
        IN  /\ UniquePairs(signals')
            /\ (NonEmpty(src) /\ NonEmpty(url)) =>
                  /\ Cardinality(RowsWith(signals', src, url)) = 1
                  /\ RowsWith(signals, src, url) # {} =>
                        (last'.ret = 0 /\ signals' = signals)

\* C1: after init_db, over any sequence of save_signal calls, at most one row
\* exists per non-empty (source, url); a call whose non-empty (source, url) is
\* already stored returns 0 and leaves the table, hence the first row, unchanged,
\* and after any call with a non-empty pair exactly one row holds that pair.
C1_OneRowPerSourceUrl == [][C1_Step]_vars

\* A second call with a stored non-empty pair was ignored, two rows are stored.
C1_Witness ==
    /\ last.op = "save_signal" /\ last.ret = 0 /\ last.outcome = "duplicate"
    /\ NonEmpty(Get(last.row, "source")) /\ NonEmpty(Get(last.row, "url"))
    /\ Cardinality(RowsWith(signals, last.row["source"], last.row["url"])) = 1
    /\ Len(signals) = 2

NamedNotNull == {"ts", "source", "text", "score", "color", "label"}

\* C2: for every envelope, also one that supplies only {source, url} or that
\* holds None under a key, under each schema version, save_signal's insert never
\* hits a NOT NULL constraint and the inserted row is non-null in ts, source,
\* text, score, color, label and in every other NOT NULL column of the table.
C2_NotNullPopulated ==
    last.op = "save_signal" =>
        /\ last.outcome \in {"inserted", "duplicate"}
        /\ last.ret = 1 =>
              \A c \in NamedNotNull \cup schema.notnull : signals[Len(signals)][c] # NULL

\* An envelope of only {source, url} was inserted into the evolved schema.
C2_Witness ==
    /\ last.op = "save_signal" /\ last.ret = 1
    /\ DOMAIN last.row = {"source", "url"}
    /\ schema = SchemaV3
    /\ signals[Len(signals)]["kind"] = Str("event")


(***************************************************************************)
(* Feed adapters: rss_fetch.py (through save_signal) and fetch_rss.py      *)
(***************************************************************************)
Pad ==
    " and the team will follow up on it in the coming days as more details on the matter become known to all of us here"

\* Feed entries as feedparser yields them: title, summary, link, published.
FeedEntries ==
    { [title |-> "Bridge exploit", summary |-> "critical exploit drains funds" \o Pad,
       link |-> "https://github.com/a/1", published |-> "2026-11-01"],
      [title |-> "Mainnet upgrade", summary |-> "partnership and upgrade launched" \o Pad,
       link |-> "https://example.org/2", published |-> "2026-11-02"],
      [title |-> "Small talk", summary |-> "short rumor",
       link |-> "https://example.org/4", published |-> ""] }

\* A feed that lists one link twice, the second time under an edited title.
RepublishedEntries ==
    { [title |-> t, summary |-> "critical exploit drains funds" \o Pad,
       link |-> "https://github.com/a/1", published |-> "2026-11-01"] :
      t \in {"Bridge exploit", "Bridge exploit (updated)"} }

\* A line of data/rss_sources.txt.
FeedSrc == "https://example.org/feed"

\* Tables of the pure functions below over the strings the feed entries give
\* rise to: each pairs an argument with the function's value on it, so that
\* the value is computed once; an argument outside a table is computed afresh.
TextKeys ==
    UNION { {<<e.title, t, sm>> : t \in {e.summary, e.title}, sm \in {e.summary, ""}} :
            e \in FeedEntries \cup RepublishedEntries }

ScoreClassifyTable == {<<k, score_classify(norm_text(k))>> : k \in TextKeys}
AnalyzeClassifyTable ==
    {<<k, analyze_classify(k[1], k[2])>> :
        k \in {<<e.title, e.summary>> : e \in FeedEntries \cup RepublishedEntries}}
DomainScoreTable == {<<e.link, domain_score(e.link)>> : e \in FeedEntries \cup RepublishedEntries}
StripTable == {<<e.summary, Strip(e.summary)>> : e \in FeedEntries \cup RepublishedEntries}

InTable(table, k) == \E p \in table : p[1] = k
Lookup(table, k) == (CHOOSE p \in table : p[1] = k)[2]

\* rss_fetch.main, one entry of one source (after ensure_columns).
rss_fetch_entry(e) ==
    /\ RssCols \subseteq schema.cols
    /\ e.link # ""
    /\ save_signal([source |-> Str(FeedSrc), title |-> Str(e.title), url |-> Str(e.link),
                    summary |-> Str(e.summary), raw |-> Str(e.published),
                    text |-> Or(Or(Str(e.summary), Str(e.title)), Str(""))])

\* sha(s): sha256 hex digest, modelled as an injective tag of its input.
sha(x) == "sha256(" \o x \o ")"

MinTextLen == 120

\* A plain INSERT: a unique or NOT NULL conflict raises sqlite3.IntegrityError.
PlainInsert(sch, rows, vals) ==
    LET r == TableRow(sch, vals)
    IN  IF NotNullViolation(sch, r) \/ UniqueConflict(rows, r)
        THEN [rows |-> rows, outcome |-> "IntegrityError"]
        ELSE [rows |-> Append(rows, r), outcome |-> "inserted"]

\* fetch_rss.insert_signal(ts, origin, title, text, url)
fetch_rss_insert_vals(ts, origin, title, text, url) ==
    [ts |-> Str(ts), source |-> Str("rss"), origin |-> Str(origin), title |-> Str(title),
     text |-> Str(text), url |-> Str(url), score |-> Num(350), color |-> Str("U+26AA"),
     label |-> Str("neutral")]

\* fetch_rss.run, one entry: filter, already_seen, insert_signal, mark_seen.
fetch_rss_entry(e) ==
    LET text == e.summary
        hv == sha(e.link \o "||" \o e.title)
        ts == IF e.published # "" THEN e.published ELSE NowTs.s
        res == PlainInsert(schema, signals,
                           fetch_rss_insert_vals(ts, FeedSrc, e.title, text, e.link))
        stripped == IF InTable(StripTable, text) THEN Lookup(StripTable, text)
                    ELSE Strip(text)
    IN  /\ UNCHANGED schema
        /\ IF text = "" \/ Len(stripped) < MinTextLen
           THEN /\ UNCHANGED <<signals, rss_seen>>
                /\ last' = [op |-> "fetch_rss", outcome |-> "skipped_short"]
           ELSE IF hv \in rss_seen
           THEN /\ UNCHANGED <<signals, rss_seen>>
                /\ last' = [op |-> "fetch_rss", outcome |-> "already_seen"]
           ELSE /\ signals' = res.rows
                /\ rss_seen' = IF res.outcome = "inserted" THEN rss_seen \cup {hv} ELSE rss_seen
                /\ last' = [op |-> "fetch_rss", outcome |-> res.outcome]

(***************************************************************************)
(* Scoring passes                                                          *)
(***************************************************************************)
\* The string of a column value, '' for NULL (COALESCE(x, '') / `x or ""`).
StrOf(v) == IF IsStr(v) THEN v.s ELSE ""

\* Mutant: the pass selects every row, whatever its rationale.
PendingAll(r) == TRUE

\* WHERE (rationale IS NULL OR rationale = '')
Pending(r) == r["rationale"] = NULL \/ r["rationale"] = Str("")

\* Mutant: ORDER BY id ASC.
OldestFirst(ids, n) == {i \in ids : Cardinality({j \in ids : j < i}) < n}

\* ORDER BY id DESC LIMIT n over a set of ids.
NewestFirst(ids, n) == {i \in ids : Cardinality({j \in ids : j > i}) < n}

\* f"{score:.2f}" of a fixed-point score.
Fmt2(x) ==
    LET c == (x + 5) \div 10
        frac == c % 100
    IN  ToString(c \div 100) \o "." \o (IF frac < 10 THEN "0" ELSE "") \o ToString(frac)

\* The row score_signals.main writes for a selected row.
score_signals_row(r) ==
    LET parts == <<StrOf(r["title"]), StrOf(r["text"]), StrOf(r["summary"])>>
        url == StrOf(r["url"])
        base == IF InTable(DomainScoreTable, url) THEN Lookup(DomainScoreTable, url)
                ELSE domain_score(url)
        k == IF InTable(ScoreClassifyTable, parts) THEN Lookup(ScoreClassifyTable, parts)
             ELSE score_classify(norm_text(parts))
        score == clamp((base + k[1]) \div 2)
    IN  [r EXCEPT !["score"] = Num(score),
                  !["color"] = Str(norm_color(k[2])),
                  !["label"] = Str(k[3]),
                  !["rationale"] = Str(k[3] \o "; score=" \o Fmt2(score) \o "; source="
                                       \o StrOf(r["source"]) \o "; t=" \o NowTs.s)]

\* score_signals.main(limit)
score_signals_main(limit) ==
    LET chosen == NewestFirst({i \in 1..Len(signals) : Pending(signals[i])}, limit)
    IN  /\ UNCHANGED <<schema, rss_seen>>
        /\ IF ~({"summary", "raw"} \subseteq schema.cols)
           THEN /\ UNCHANGED signals
                /\ last' = [op |-> "score_signals", outcome |-> "OperationalError",
                            ids |-> {}]
           ELSE /\ signals' = [i \in 1..Len(signals) |->
                                  IF i \in chosen THEN score_signals_row(signals[i])
                                  ELSE signals[i]]
                /\ last' = [op |-> "score_signals", outcome |-> "ok", ids |-> chosen]

\* The row analyze_signal.run writes for a selected row.
analyze_row(r) ==
    LET tt == <<StrOf(r["title"]), StrOf(r["text"])>>
        k == IF InTable(AnalyzeClassifyTable, tt) THEN Lookup(AnalyzeClassifyTable, tt)
             ELSE analyze_classify(tt[1], tt[2])
        url == StrOf(r["url"])
    IN  [r EXCEPT !["score"] = Num(k[1]),
                  !["label"] = Str(k[2]),
                  !["color"] = Str(k[3]),
                  !["rationale"] = Str(IF url # "" THEN k[4] \o "; url=" \o url ELSE k[4])]

\* analyze_signal.run(limit)
analyze_run(limit) ==
    LET chosen == NewestFirst({i \in 1..Len(signals) :
                                  signals[i]["source"] = Str("rss") /\ Pending(signals[i])},
                              limit)
    IN  /\ UNCHANGED <<schema, rss_seen>>
        /\ signals' = [i \in 1..Len(signals) |->
                          IF i \in chosen THEN analyze_row(signals[i]) ELSE signals[i]]
        /\ last' = [op |-> "analyze_signal", outcome |-> "ok", ids |-> chosen]

(***************************************************************************)
(* decision_engine.py                                                      *)
(***************************************************************************)
\* int(c) of one decimal digit.
DigitVal(c) == CHOOSE d \in 0..9 : SubSeq("0123456789", d + 1, d + 1) = c

\* int(s) of a decimal string.
RECURSIVE IntOfStr(_)
IntOfStr(x) ==
    IF Len(x) = 0 THEN 0
    ELSE 10 * IntOfStr(SubSeq(x, 1, Len(x) - 1)) + DigitVal(SubSeq(x, Len(x), Len(x)))

\* Mutant: the stored watermark is ignored and every run starts from the default.
get_state_default(v, default) == default

\* get_state(cur, "engine:last_id", default)
get_state(v, default) == Or(IF v # NULL THEN v ELSE Str(default), Str(default)).s

\* dedup_key(action_type, signal_id, url)
dedup_key(action_type, signal_id, url) ==
    action_type \o ":" \o ToString(signal_id) \o ":" \o url

\* Mutant: the yellow rule is missing.
action_for_signal_red_only(id, r) ==
    LET c == Strip(StrOf(r["color"]))
    IN  IF c = "U+1F534"
        THEN [signal_id |-> id, action_type |-> "investigate", priority |-> 90,
              title |-> Or(r["title"], Str("red signal")).s, url |-> StrOf(r["url"])]
        ELSE NULL

\* action_for_signal(row): the action of a signal row, or None.
action_for_signal(id, r) ==
    LET c == Strip(StrOf(r["color"]))
    IN  IF c = "U+1F534"
        THEN [signal_id |-> id, action_type |-> "investigate", priority |-> 90,
              title |-> Or(r["title"], Str("red signal")).s, url |-> StrOf(r["url"])]
        ELSE IF c = "U+1F7E1"
        THEN [signal_id |-> id, action_type |-> "monitor", priority |-> 50,
              title |-> Or(r["title"], Str("yellow signal")).s, url |-> StrOf(r["url"])]
        ELSE NULL

\* The unique index on actions.dedup_key rejects the key.
ActionsConflict(acts, dk) == \E i \in 1..Len(acts) : acts[i].dedup_key = dk

\* The actions row main inserts for an action.
ActionRow(a) ==
    [signal_id |-> a.signal_id, action_type |-> a.action_type, priority |-> a.priority,
     title |-> a.title, url |-> a.url, status |-> "open",
     dedup_key |-> dedup_key(a.action_type, a.signal_id, a.url)]

\* The loop of main over the selected rows, ids ascending from `from`:
\* [acts, inserted, max_id] after the rows from..Len(rows).
RECURSIVE EngineLoop(_, _, _, _, _)
EngineLoop(rows, from, acts, inserted, max_id) ==
    IF from > Len(rows) THEN [acts |-> acts, inserted |-> inserted, max_id |-> max_id]
    ELSE LET a == action_for_signal(from, rows[from])
             m == IF from > max_id THEN from ELSE max_id
         IN  IF a = NULL THEN EngineLoop(rows, from + 1, acts, inserted, m)
             ELSE IF ActionsConflict(acts, ActionRow(a).dedup_key)
             THEN EngineLoop(rows, from + 1, acts, inserted, m)      \* except IntegrityError
             ELSE EngineLoop(rows, from + 1, Append(acts, ActionRow(a)), inserted + 1, m)

\* Mutant: a run that finds no signal writes the default watermark.
WatermarkReset(last_id, max_id) == IF max_id > last_id THEN ToString(max_id) ELSE "0"

\* Mutant: set_state writes the watermark the run started from.
WatermarkStale(last_id, max_id) == ToString(last_id)

\* The value main hands to set_state: str(max_id).
Watermark(last_id, max_id) == ToString(max_id)

\* decision_engine.main, run to completion by one process.
decision_engine_main ==
    LET last_id == IntOfStr(get_state(engine_state, "0"))
        res == EngineLoop(signals, last_id + 1, actions, 0, last_id)
    IN  /\ actions' = res.acts
        /\ engine_state' = Str(Watermark(last_id, res.max_id))
        /\ ran' = Len(signals)
        /\ last' = [op |-> "decision_engine", outcome |-> "ok",
                    ids |-> (last_id + 1)..Len(signals),
                    processed |-> Max(0, Len(signals) - last_id),
                    inserted |-> res.inserted, prev |-> ran]
        /\ UNCHANGED <<schema, signals, rss_seen, downstreamVars>>

(***************************************************************************)
(* Adapters, scoring passes and the Decision Engine, one call at a time    *)
(***************************************************************************)
InitStore ==
    /\ schema = SchemaV1
    /\ signals = <<>>
    /\ rss_seen = {}
    /\ actions = <<>>
    /\ engine_state = NULL
    /\ ran = -1
    /\ InitDownstream
    /\ last = NoCall

RssFetchEntry ==
    /\ \E e \in FeedEntries : rss_fetch_entry(e)
    /\ Len(signals') <= MaxSignals
    /\ UNCHANGED <<rss_seen, engineVars>>

FetchRssEntry ==
    /\ \E e \in FeedEntries : fetch_rss_entry(e)
    /\ Len(signals') <= MaxSignals
    /\ UNCHANGED engineVars

ScoreSignalsMain ==
    /\ \E limit \in 1..MaxLimit : score_signals_main(limit)
    /\ UNCHANGED engineVars

AnalyzeSignalRun ==
    /\ \E limit \in 1..MaxLimit : analyze_run(limit)
    /\ UNCHANGED engineVars

NextScore ==
    \/ EnsureColumns
    \/ RssFetchEntry
    \/ FetchRssEntry
    \/ ScoreSignalsMain
    \/ AnalyzeSignalRun
    \/ decision_engine_main

SpecScore == InitStore /\ [][NextScore]_vars

ScoredFields == {"score", "color", "label", "rationale"}

C3_Step ==
    /\ \A i \in 1..Len(signals) :
          NonEmpty(signals[i]["rationale"]) =>
              \A c \in ScoredFields : signals'[i][c] = signals[i][c]
    /\ last'.op \in {"score_signals", "analyze_signal"} =>
          \A i \in last'.ids : NonEmpty(signals'[i]["rationale"])

\* C3: once a signal's rationale is non-empty, no later call (score_signals.main
\* or analyze_signal.run, in any order, any number of times) changes its score,
\* color, label or rationale; and every row a scoring pass selects and updates
\* ends with a non-empty rationale, so a signal is scored at most once.
C3_ScoredOnce == [][C3_Step]_vars

\* score_signals.main has just scored a row while another row, scored earlier
\* by analyze_signal.run, was in the table.
C3_Witness ==
    /\ last.op = "score_signals" /\ last.outcome = "ok" /\ last.ids # {}
    /\ \E i \in 1..Len(signals) :
          /\ i \notin last.ids
          /\ StartsWith(StrOf(signals[i]["rationale"]), "rule:")

\* C4: a Decision Engine run that starts after a completed run, with no signal
\* inserted in between, processes zero signals and inserts zero actions.
C4_RerunProcessesNothing ==
    (last.op = "decision_engine" /\ last.prev = Len(signals)) =>
        (last.processed = 0 /\ last.inserted = 0)

\* A rerun over a store whose earlier run had emitted an action.
C4_Witness ==
    /\ last.op = "decision_engine" /\ last.prev = Len(signals)
    /\ Len(signals) >= 1 /\ Len(actions) >= 1

ActionsOf(id) == {k \in 1..Len(actions) : actions[k].signal_id = id}

\* C6: of the signals a Decision Engine run processes, a red one has exactly one
\* action, "investigate" with priority 90, a yellow one exactly one action,
\* "monitor" with priority 50, and one of any other colour has no action.
C6_ActionPerColor ==
    last.op = "decision_engine" =>
        \A id \in last.ids :
            LET c == Strip(StrOf(signals[id]["color"]))
                mine == ActionsOf(id)
            IN  /\ c = "U+1F534" =>
                      /\ Cardinality(mine) = 1
                      /\ \A k \in mine : actions[k].action_type = "investigate"
                                         /\ actions[k].priority = 90
                /\ c = "U+1F7E1" =>
                      /\ Cardinality(mine) = 1
                      /\ \A k \in mine : actions[k].action_type = "monitor"
                                         /\ actions[k].priority = 50
                /\ c \notin {"U+1F534", "U+1F7E1"} => mine = {}

\* One run has processed a red and a yellow signal.
C6_Witness ==
    /\ last.op = "decision_engine"
    /\ \E i, j \in last.ids :
          /\ signals[i]["color"] = Str("U+1F534")
          /\ signals[j]["color"] = Str("U+1F7E1")

(***************************************************************************)
(* decision_engine.py, two processes side by side.  SQLite lets one        *)
(* connection write at a time: the first INSERT of a connection takes the  *)
(* write lock and keeps it until commit; a connection that cannot get the  *)
(* lock waits, and raises OperationalError when its busy timeout expires.  *)
(***************************************************************************)

\* Coloured signals handed to save_signal by a caller.
EngineEnvelopes ==
    { [source |-> Str("akash/github"), url |-> UrlV1, color |-> Str(c)] :
        c \in {"U+1F534", "U+1F7E2"} }
    \cup { [source |-> Str("akash/github"), url |-> UrlV2, color |-> Str("U+1F7E1")] }

\* Mutant: the dedup hit is re-raised and ends main.
OnIntegrityErrorRaise(pr) == [pr EXCEPT !.pc = "raised", !.hits = @ + 1]

\* except sqlite3.IntegrityError: pass -- the loop goes on with the next row.
OnIntegrityError(pr) == [pr EXCEPT !.i = @ + 1, !.hits = @ + 1]

\* The next statement of the process writes: an INSERT for a row that has
\* an action, or set_state after the loop.
NeedsWrite(pr) ==
    /\ pr.pc = "loop"
    /\ pr.i <= pr.n => action_for_signal(pr.i, signals[pr.i]) # NULL

\* connect, get_state and the SELECT of the new signals.
engine_begin(p) ==
    LET last_id == IntOfStr(get_state(engine_state, "0"))
    IN  /\ procs[p].pc = "idle"
        /\ procs' = [procs EXCEPT ![p] =
                        [IdleProc EXCEPT !.pc = "loop", !.last_id = last_id,
                                         !.n = Len(signals), !.i = last_id + 1,
                                         !.max_id = last_id]]
        /\ UNCHANGED <<akashVars, schema, signals, rss_seen, actions, engine_state, ran, lock,
                       object_index, pipeline, last>>

\* One iteration of the loop of main.
engine_row(p) ==
    LET pr == procs[p]
        a == action_for_signal(pr.i, signals[pr.i])
        m == IF pr.i > pr.max_id THEN pr.i ELSE pr.max_id
        seen == [pr EXCEPT !.max_id = m]
    IN  /\ pr.pc = "loop" /\ pr.i <= pr.n
        /\ IF a = NULL
           THEN /\ procs' = [procs EXCEPT ![p] = [seen EXCEPT !.i = @ + 1]]
                /\ UNCHANGED lock
           ELSE /\ lock \in {NoProc, p}
                /\ lock' = p
                /\ procs' = [procs EXCEPT ![p] =
                      IF ActionsConflict(actions \o pr.pend, ActionRow(a).dedup_key)
                      THEN OnIntegrityError(seen)
                      ELSE [seen EXCEPT !.pend = Append(@, ActionRow(a)),
                                        !.inserted = @ + 1, !.i = @ + 1]]
        /\ UNCHANGED <<akashVars, schema, signals, rss_seen, actions, engine_state, ran,
                       object_index, pipeline, last>>

\* set_state(cur, "engine:last_id", str(max_id)) after the loop.
engine_set_state(p) ==
    LET pr == procs[p]
    IN  /\ pr.pc = "loop" /\ pr.i > pr.n
        /\ lock \in {NoProc, p}
        /\ lock' = p
        /\ procs' = [procs EXCEPT ![p] =
                        [pr EXCEPT !.pc = "commit",
                                   !.state = Watermark(pr.last_id, pr.max_id)]]
        /\ UNCHANGED <<akashVars, schema, signals, rss_seen, actions, engine_state, ran,
                       object_index, pipeline, last>>

\* con.commit(): the inserts and the watermark become visible together.
engine_commit(p) ==
    LET pr == procs[p]
    IN  /\ pr.pc = "commit"
        /\ actions' = actions \o pr.pend
        /\ engine_state' = Str(pr.state)
        /\ lock' = NoProc
        /\ ran' = pr.n
        /\ procs' = [procs EXCEPT ![p] = IdleProc]
        /\ last' = [op |-> "decision_engine", outcome |-> "ok",
                    ids |-> (pr.last_id + 1)..pr.n,
                    processed |-> Max(0, pr.n - pr.last_id),
                    inserted |-> pr.inserted, hits |-> pr.hits, prev |-> ran]
        /\ UNCHANGED <<akashVars, schema, signals, rss_seen, object_index, pipeline>>

\* The write lock is held by the other process until the busy timeout expires:
\* cur.execute raises OperationalError, main ends and its writes are rolled back.
engine_locked(p) ==
    LET pr == procs[p]
    IN  /\ NeedsWrite(pr)
        /\ lock \notin {NoProc, p}
        /\ procs' = [procs EXCEPT ![p] = IdleProc]
        /\ last' = [op |-> "decision_engine", outcome |-> "OperationalError",
                    ids |-> {}, processed |-> 0, inserted |-> 0, hits |-> pr.hits,
                    prev |-> ran]
        /\ UNCHANGED <<akashVars, schema, signals, rss_seen, actions, engine_state, ran, lock,
                       object_index, pipeline>>

\* Mutant: an abort leaves the inserts made so far in the actions table.
engine_abort_partial(p) ==
    LET pr == procs[p]
    IN  /\ pr.pc \in {"loop", "commit"}
        /\ procs' = [procs EXCEPT ![p] = IdleProc]
        /\ actions' = actions \o pr.pend
        /\ lock' = IF lock = p THEN NoProc ELSE lock
        /\ last' = [op |-> "decision_engine", outcome |-> "aborted",
                    ids |-> {}, processed |-> 0, inserted |-> Len(pr.pend),
                    hits |-> pr.hits, prev |-> ran]
        /\ UNCHANGED <<akashVars, schema, signals, rss_seen, engine_state, ran,
                       object_index, pipeline>>

\* main ends before con.commit() (an exception out of the loop, or the process
\* is killed): the connection closes and the open transaction is rolled back.
engine_abort(p) ==
    LET pr == procs[p]
    IN  /\ pr.pc \in {"loop", "commit"}
        /\ procs' = [procs EXCEPT ![p] = IdleProc]
        /\ lock' = IF lock = p THEN NoProc ELSE lock
        /\ last' = [op |-> "decision_engine", outcome |-> "aborted",
                    ids |-> {}, processed |-> 0, inserted |-> Len(pr.pend),
                    hits |-> pr.hits, prev |-> ran]
        /\ UNCHANGED <<akashVars, schema, signals, rss_seen, actions, engine_state, ran,
                       object_index, pipeline>>

\* A coloured signal arrives between or during engine runs.
OverlapSaveSignal ==
    /\ lock = NoProc
    /\ \E row \in EngineEnvelopes : save_signal(row)
    /\ Len(signals') <= MaxSignals
    /\ UNCHANGED <<rss_seen, engineVars>>

\* The engine:last_id row is deleted; get_state then returns its default.
EngineStateReset ==
    /\ lock = NoProc
    /\ engine_state # NULL
    /\ engine_state' = NULL
    /\ UNCHANGED <<schema, signals, rss_seen, actions, ran, downstreamVars, last>>

NextEngineOverlap ==
    \/ OverlapSaveSignal
    \/ \E p \in Procs : engine_begin(p)
    \/ \E p \in Procs : engine_row(p)
    \/ \E p \in Procs : engine_set_state(p)
    \/ \E p \in Procs : engine_commit(p)
    \/ \E p \in Procs : engine_locked(p)
    \/ \E p \in Procs : engine_abort(p)
    \/ EngineStateReset

SpecEngineOverlap == InitStore /\ [][NextEngineOverlap]_vars

\* The dedup key of an action row, from its fields.
KeyOf(a) == dedup_key(a.action_type, a.signal_id, a.url)

UniqueDedupKeys(acts) ==
    \A i, j \in 1..Len(acts) :
        i # j => (KeyOf(acts[i]) # KeyOf(acts[j]) /\ acts[i].dedup_key # acts[j].dedup_key)

C5_Step ==
    /\ UniqueDedupKeys(actions')
    /\ \A p \in Procs :
          procs'[p].hits > procs[p].hits =>
              /\ procs'[p].pc = "loop"
              /\ procs'[p].i = procs[p].i + 1
              /\ procs'[p].pend = procs[p].pend
              /\ actions' = actions
    /\ \A p \in Procs :
          (procs[p].pc = "commit" /\ procs'[p].pc = "idle" /\ last'.outcome = "ok") =>
              \A id \in (procs[p].last_id + 1)..procs[p].n :
                  LET a == action_for_signal(id, signals[id])
                  IN  a # NULL => \E k \in 1..Len(actions') : actions'[k] = ActionRow(a)

\* C5: after any sequence of Decision Engine runs, overlapping runs and runs
\* after a watermark reset included, no two action rows have the same dedup key
\* action_type:signal_id:url; an insert that hits an existing key is ignored,
\* the loop goes on with the next row, and the run that commits leaves an
\* action for every red or yellow signal it selected.
C5_DedupKeyUnique == [][C5_Step]_vars

\* A committed run hit an existing key on one row and inserted another row.
C5_Witness ==
    /\ last.op = "decision_engine" /\ last.outcome = "ok"
    /\ last.hits >= 1 /\ last.inserted >= 1
    /\ Len(actions) >= 2

(***************************************************************************)
(* oii_snapshot.py                                                         *)
(***************************************************************************)
WHITELIST == {"Akash", "Bittensor", "GAEA", "EigenLayer", "Render"}

\* The weights of the index, in hundredths: 0.55, 0.30, 0.15.
W_RISK == 55
W_VOL == 30
W_REC == 15

DAYS_DEFAULT == 30

\* The rank of a character of an isoformat() timestamp in byte order.
CharRank(c) ==
    LET chars == " +-.0123456789:TZ"
    IN  CHOOSE i \in 1..Len(chars) : SubSeq(chars, i, i) = c

\* a < b as SQLite compares two TEXT values (bytewise).
TextLess(a, b) ==
    LET m == Min(Len(a), Len(b))
        diff == {i \in 1..m : SubSeq(a, i, i) # SubSeq(b, i, i)}
    IN  IF diff = {} THEN Len(a) < Len(b)
        ELSE LET d == SetMin(diff)
             IN  CharRank(SubSeq(a, d, d)) < CharRank(SubSeq(b, d, d))

\* (now - timedelta(days=DAYS)).replace(microsecond=0).isoformat(), now as NowTs
Since == "2026-10-05T00:00:00+00:00"

\* (now - timedelta(days=3)).replace(microsecond=0).isoformat()
Since3 == "2026-11-01T00:00:00+00:00"

\* to_float(x): float(x), or 0.0 when float raises (None, a non-numeric string).
to_float(x) == IF IsNum(x) THEN x.n ELSE 0

\* WHERE ts >= ? AND COALESCE(object,'') != ''
Selected(rows, since) ==
    {i \in 1..Len(rows) :
        /\ IsStr(rows[i]["ts"]) /\ ~TextLess(rows[i]["ts"].s, since)
        /\ StrOf(rows[i]["object"]) # ""}

\* obj = (r["object"] or "").strip()
ObjOf(r) == Strip(StrOf(r["object"]))

\* The rows counted for obj: per_obj[obj], total_cnt[obj].
Items(rows, obj) == {i \in Selected(rows, Since) : ObjOf(rows[i]) = obj}

\* The keys of total_cnt.
Objects(rows) == {ObjOf(rows[i]) : i \in Selected(rows, Since)} \cap WHITELIST

\* risk_cnt[obj]
RiskCnt(rows, obj) ==
    Cardinality({i \in Items(rows, obj) : StrOf(rows[i]["color"]) = "U+1F534"})

RECURSIVE SumOver(_, _)
SumOver(ids, f) ==
    IF ids = {} THEN 0
    ELSE LET i == CHOOSE i \in ids : TRUE IN f[i] + SumOver(ids \ {i}, f)

\* math.sqrt of a variance given in Scale * Scale units, in Scale units.
Sqrt(x) == CHOOSE r \in 0..(2 * Scale) : r * r <= x /\ x < (r + 1) * (r + 1)

\* vol[obj]: the population standard deviation of the scores of obj.
Vol(rows, obj) ==
    LET ids == Items(rows, obj)
        n == Cardinality(ids)
        val == [i \in ids |-> to_float(rows[i]["score"])]
        total == SumOver(ids, val)
        sq == [i \in ids |-> (n * val[i] - total) * (n * val[i] - total)]
    IN  IF n = 0 THEN 0 ELSE Sqrt(SumOver(ids, sq) \div (n * n * n))

\* max_vol, 1.0 when there is none or it is 0.
MaxVol(rows) ==
    LET vols == {Vol(rows, o) : o \in Objects(rows)}
    IN  IF vols = {} \/ SetMax(vols) = 0 THEN Scale ELSE SetMax(vols)

\* The groups of the last-3-days query: the object values as stored.
Last3Groups(rows) == {rows[i]["object"].s : i \in Selected(rows, Since3)}

\* Mutant: COUNT(*) counts every row of the query, whatever its group.
GroupCountAll(rows, g) == Cardinality(Selected(rows, Since3))

\* COUNT(*) c of the group g.
GroupCount(rows, g) ==
    Cardinality({i \in Selected(rows, Since3) : rows[i]["object"].s = g})

\* The orders in which the dict comprehension can meet the groups: for every
\* stripped name, the group that is met last and stays in last3_cnt.
GroupOrders(rows) ==
    LET gs == Last3Groups(rows)
        keys == {Strip(g) : g \in gs}
    IN  {pick \in [keys -> gs] : \A k \in keys : Strip(pick[k]) = k}

\* last3_cnt.get(obj, 0)
Last3Cnt(rows, pick, obj) ==
    IF obj \in DOMAIN pick THEN GroupCount(rows, pick[obj]) ELSE 0

\* The tuple appended to out for obj.
IndexRow(rows, pick, obj) ==
    LET n_total == Cardinality(Items(rows, obj))
        n_risk == RiskCnt(rows, obj)
        risk_share == IF n_total # 0 THEN (n_risk * Scale) \div n_total ELSE 0
        vol_norm == (Vol(rows, obj) * Scale) \div MaxVol(rows)
        recency == IF n_total # 0
                   THEN (Last3Cnt(rows, pick, obj) * Scale) \div n_total ELSE 0
    IN  [ts |-> NowTs.s, window_days |-> DAYS_DEFAULT, object |-> obj,
         n_total |-> n_total, risk_share |-> risk_share, vol_norm |-> vol_norm,
         recency |-> recency,
         oii |-> (W_RISK * risk_share + W_VOL * vol_norm + W_REC * recency) \div 100]

\* oii_snapshot.main: INSERT OR REPLACE of one row per whitelisted object.
oii_snapshot_main ==
    \E pick \in GroupOrders(signals) :
        LET objs == Objects(signals)
        IN  /\ object_index' =
                  [o \in (DOMAIN object_index) \cup objs |->
                      IF o \in objs THEN IndexRow(signals, pick, o) ELSE object_index[o]]
            /\ last' = [op |-> "oii_snapshot", outcome |-> "ok", objects |-> objs,
                        pick |-> pick]
            /\ UNCHANGED <<akashVars, schema, signals, rss_seen, actions, engine_state, ran,
                           procs, lock, pipeline>>

TsOld == Str("2026-09-01T00:00:00+00:00")
TsMid == Str("2026-10-20T12:30:00+00:00")
TsRecent == Str("2026-11-03T08:00:00+00:00")

OiiEnv(k, obj, color, score, ts) ==
    [source |-> Str("sample"), url |-> Str("https://x/oii/" \o k),
     object |-> Str(obj), color |-> Str(color), score |-> Num(score), ts |-> ts]

\* Signals with an object, as callers hand them to save_signal.
OiiEnvelopes ==
    { OiiEnv("1", "Akash", "U+1F534", 800, TsRecent),
      OiiEnv("2", "Akash", "U+1F7E2", 300, TsRecent),
      OiiEnv("3", "Akash ", "U+1F7E2", 300, TsRecent),
      OiiEnv("4", "Akash", "U+1F534", 1000, TsOld),
      OiiEnv("5", "Bittensor", "U+1F7E2", 0, TsMid),
      OiiEnv("6", "Akash Network", "U+1F534", 800, TsRecent) }

MaxOiiSignals == 3

InitOII ==
    /\ schema = SchemaV3
    /\ signals = <<>>
    /\ rss_seen = {}
    /\ actions = <<>>
    /\ engine_state = NULL
    /\ ran = -1
    /\ InitDownstream
    /\ last = NoCall

OiiSaveSignal ==
    /\ \E row \in OiiEnvelopes : save_signal(row)
    /\ Len(signals') <= MaxOiiSignals
    /\ UNCHANGED <<rss_seen, engineVars>>

NextOII == OiiSaveSignal \/ oii_snapshot_main

SpecOII == InitOII /\ [][NextOII]_vars

InUnit(x) == x \in 0..Scale

\* C7: for in-window signals whose scores lie in [0,1], every row written by
\* oii_snapshot.main has risk_share, vol_norm, recency and oii within [0,1].
C7_IndexInUnitInterval ==
    \A o \in DOMAIN object_index :
        /\ InUnit(object_index[o].risk_share)
        /\ InUnit(object_index[o].vol_norm)
        /\ InUnit(object_index[o].recency)
        /\ InUnit(object_index[o].oii)

\* A snapshot with two objects, one of them with the largest deviation of the
\* run and both red and other signals.
C7_Witness ==
    \E o, q \in DOMAIN object_index :
        /\ o # q
        /\ object_index[o].vol_norm = Scale
        /\ object_index[o].risk_share \notin {0, Scale}
        /\ object_index[o].recency > 0

\* The definitions of the index, over the signals of the window.
WindowOf(o) ==
    {i \in 1..Len(signals) :
        /\ ~TextLess(signals[i]["ts"].s, Since)
        /\ Strip(StrOf(signals[i]["object"])) = o}

RedShare(o) ==
    (Cardinality({i \in WindowOf(o) : signals[i]["color"] = Str("U+1F534")}) * Scale)
        \div Cardinality(WindowOf(o))

Last3Share(o) ==
    (Cardinality({i \in WindowOf(o) : ~TextLess(signals[i]["ts"].s, Since3)}) * Scale)
        \div Cardinality(WindowOf(o))

ScenarioB ==
    /\ Len(signals) = 2
    /\ \A i \in 1..2 : signals[i]["object"] = Str("Akash") /\ signals[i]["ts"] = TsRecent
    /\ \E i, j \in 1..2 :
          /\ signals[i]["color"] = Str("U+1F534") /\ signals[i]["score"] = Num(800)
          /\ signals[j]["color"] = Str("U+1F7E2") /\ signals[j]["score"] = Num(300)

\* C8: after oii_snapshot.main, the row of every object has risk_share = red
\* signals / signals of the window, recency = signals of the last 3 days /
\* signals of the window, vol_norm = its deviation / the largest deviation of the
\* run, and oii = 0.55*risk_share + 0.30*vol_norm + 0.15*recency; in scenario B
\* the row of "Akash" is 0.5, 1.0, 1.0 and 0.725.
C8_IndexFormula ==
    last.op = "oii_snapshot" =>
        /\ \A o \in last.objects :
              LET row == object_index[o]
              IN  /\ row.risk_share = RedShare(o)
                  /\ row.recency = Last3Share(o)
                  /\ row.vol_norm = (Vol(signals, o) * Scale) \div MaxVol(signals)
                  /\ row.oii = (55 * row.risk_share + 30 * row.vol_norm
                                + 15 * row.recency) \div 100
        /\ ScenarioB =>
              /\ object_index["Akash"].risk_share = 500
              /\ object_index["Akash"].recency = 1000
              /\ object_index["Akash"].vol_norm = 1000
              /\ object_index["Akash"].oii = 725

(***************************************************************************)
(* The two classifiers as functions of a title and a text                  *)
(***************************************************************************)
MaxWords == 3

ClassifyWords == {"exploit", "hack", "upgrade", "launched", "partnership", "notes"}
ClassifyTitles == {"", "Critical"}

ClassifyTexts ==
    {JoinBlank(ws) : ws \in UNION {[1..n -> ClassifyWords] : n \in 1..MaxWords}}

\* analyze_signal.classify(title, text), and score_signals.classify on the blob
\* score_signals.main builds from the same title and text.
classify_call(title, text) ==
    LET k == score_classify(norm_text(<<title, text, "">>))
    IN  /\ last' = [op |-> "classify", title |-> title, text |-> text,
                    analyze |-> analyze_classify(title, text),
                    score |-> <<k[1], norm_color(k[2]), k[3]>>]
        /\ UNCHANGED <<schema, signals, rss_seen, engineVars>>

\* A title and a text are given; no classifier has been applied yet.
InitClassify ==
    /\ schema = SchemaV1
    /\ signals = <<>>
    /\ rss_seen = {}
    /\ actions = <<>>
    /\ engine_state = NULL
    /\ ran = -1
    /\ InitDownstream
    /\ \E title \in ClassifyTitles, text \in ClassifyTexts :
          last = [op |-> "input", title |-> title, text |-> text]

ClassifyCall == last.op = "input" /\ classify_call(last.title, last.text)

NextClassify == ClassifyCall

SpecClassify == InitClassify /\ [][NextClassify]_vars

HitCount(t, words) == Cardinality({w \in words : Contains(t, w)})

\* C9: a text with at least one risk keyword and at least one hype keyword,
\* the hype hits not more than the risk hits, is classified "risk" (red) and
\* never "hype", by analyze_signal.classify and by score_signals.classify, each
\* over its own vocabulary.
C9_RiskWinsTie ==
    last.op = "classify" =>
        LET t == Lower(last.title \o "\n" \o last.text)
            blob == norm_text(<<last.title, last.text, "">>)
            risk == HitCount(t, RISK_WORDS)
            hype == HitCount(t, HYPE_WORDS)
            red == HitCount(blob, KEYWORDS_RED)
            green == HitCount(blob, KEYWORDS_GREEN)
        IN  /\ (risk >= 1 /\ hype >= 1 /\ hype <= risk) =>
                  (last.analyze[2] = "risk" /\ last.analyze[3] = "U+1F534")
            /\ (red >= 1 /\ green >= 1 /\ green <= red) =>
                  (StartsWith(last.score[3], "risk") /\ last.score[2] = "U+1F534")

(***************************************************************************)
(* run_all.py: the stages of one pipeline run                              *)
(***************************************************************************)

\* The sources a stage fetches over the network.
StageSources ==
    <<{"gaea/github", "gaea/medium", "gaea/site"},
      {"akash/github/releases"},
      {"subtensor"},
      {"feed"},
      {},
      {"feedA", "feedB"},
      {}>>

\* The exit code of stage k when the fetches of `failed` fail: akash_fetch.main
\* returns 2; the other adapters catch the error and go on.
StageExit(k, failed) ==
    IF Stages[k] = "akash_fetch.py" /\ failed # {} THEN 2 ELSE 0

\* The sources of stage k that can give a new item when `failed` fail:
\* fetch_bittensor_metrics stores the metrics dict, errors included.
StageYield(k, failed) ==
    IF Stages[k] = "fetch_bittensor_metrics.py" THEN StageSources[k]
    ELSE IF StageExit(k, failed) # 0 THEN {}
    ELSE StageSources[k] \ failed

\* main up to the first stage: storage.init_db().
run_all_start ==
    /\ pipeline.pc = 0
    /\ pipeline' = [pipeline EXCEPT !.pc = 1]
    /\ UNCHANGED <<akashVars, schema, signals, rss_seen, actions, engine_state, ran,
                   procs, lock,
                   object_index, last>>

\* run(cmd) for stage k: a non-zero exit code raises SystemExit.
run_stage(k, failed, got) ==
    LET r == StageExit(k, failed)
    IN  /\ pipeline.pc = k /\ pipeline.code = -1
        /\ pipeline' = [pipeline EXCEPT !.exit[k] = r, !.net[k] = failed, !.got[k] = got,
                                        !.pc = IF r # 0 THEN k ELSE k + 1,
                                        !.code = IF r # 0 THEN r ELSE -1]
        /\ UNCHANGED <<akashVars, schema, signals, rss_seen, actions, engine_state, ran,
                       procs, lock,
                       object_index, last>>

\* return 0 after the last stage.
run_all_return ==
    /\ pipeline.pc = Len(Stages) + 1 /\ pipeline.code = -1
    /\ pipeline' = [pipeline EXCEPT !.code = 0]
    /\ UNCHANGED <<akashVars, schema, signals, rss_seen, actions, engine_state, ran,
                   procs, lock,
                   object_index, last>>

RunStage ==
    \E k \in 1..Len(Stages) :
        \E failed \in SUBSET StageSources[k] :
            \E got \in SUBSET StageYield(k, failed) : run_stage(k, failed, got)

NextRunAll == run_all_start \/ RunStage \/ run_all_return

SpecRunAll == InitStore /\ [][NextRunAll]_vars

\* C10: when a fetch of one source fails in a pipeline run, the run is not
\* aborted: once it has ended it has returned 0, every stage has been run to
\* exit code 0, and no failing source has contributed an item.
C10_NetworkFailureIsolated ==
    (pipeline.code # -1 /\ \E k \in 1..Len(Stages) : pipeline.net[k] # {}) =>
        /\ pipeline.code = 0
        /\ \A k \in 1..Len(Stages) : pipeline.exit[k] = 0
        /\ \A k \in 1..Len(Stages) : pipeline.net[k] \cap pipeline.got[k] = {}

(***************************************************************************)
(* Adapters writing side by side: gaea_fetch.store (check, then a plain    *)
(* INSERT), storage.save_signal, fetch_rss.run and the scoring passes,     *)
(* interleaved between two pipeline runs                                   *)
(***************************************************************************)
\* The keyword arguments fetch_github passes to store() for a release.
GaeaItems ==
    { [source |-> Str("gaea/github"), kind |-> Str("release"), title |-> Str("node: v1"),
       url |-> Str("https://github.com/gaea/node/releases/v1"),
       body |-> Str("release notes"), ts |-> Str("2026-11-01T00:00:00Z")],
      [source |-> Str("gaea/github"), kind |-> Str("release"), title |-> Str("node: v2"),
       url |-> Str("https://github.com/gaea/node/releases/v2"),
       body |-> Str(""), ts |-> Str("2026-11-02T00:00:00Z")] }

\* gaea_fetch.signal_exists(conn, url): a row with this url, of any source.
signal_exists(url) ==
    "url" \in schema.cols /\ \E i \in 1..Len(signals) : signals[i]["url"] = url

\* gaea_fetch.insert_signal, up to the INSERT: the column values it binds.
gaea_insert_vals(sch, payload) ==
    LET bodyOrTitle == Or(Or(Get(payload, "body"), Get(payload, "title")), Str(""))
        bodyCols == {c \in {"body", "content", "description", "summary"} : c \in sch.cols}
        body_col == IF "body" \in bodyCols THEN "body"
                    ELSE IF "content" \in bodyCols THEN "content"
                    ELSE IF "description" \in bodyCols THEN "description"
                    ELSE "summary"
        p1 == IF "text" \in sch.cols /\ Get(payload, "text") = NULL
              THEN Put(payload, "text", bodyOrTitle) ELSE payload
        p2 == IF bodyCols # {} /\ Get(p1, body_col) = NULL
              THEN Put(p1, body_col, Or(Get(p1, "body"), Str(""))) ELSE p1
        fill == {k \in sch.notnull \cap sch.cols : Get(p2, k) = NULL}
        p3 == [k \in DOMAIN p2 \cup fill |-> IF k \in fill THEN Str("") ELSE p2[k]]
        p4 == IF "text" \in sch.cols /\ Get(p3, "text") = Str("")
              THEN Put(p3, "text", bodyOrTitle) ELSE p3
    IN  [k \in DOMAIN p4 \cap sch.cols |-> p4[k]]

\* store(), first half: signal_exists returns True and store returns False, or
\* the payload is built and the process goes on to insert_signal.
gaea_store_check(p) ==
    /\ procs[p].pc = "idle"
    /\ \E it \in GaeaItems :
          IF signal_exists(it.url)
          THEN /\ last' = [op |-> "gaea_store", row |-> it, ret |-> 0, outcome |-> "exists"]
               /\ UNCHANGED procs
          ELSE /\ procs' = [procs EXCEPT ![p] =
                              [pc |-> "insert",
                               payload |-> [it EXCEPT !.body = Or(it.body, Str(""))]
                                           @@ [object |-> Str("GAEA"), meta |-> Str("{}"),
                                               raw |-> Str("{}")]]]
               /\ UNCHANGED last
    /\ UNCHANGED <<schema, signals, rss_seen, actions, engine_state, ran, lock,
                   object_index, pipeline, akashVars>>

\* store(), second half: insert_signal runs its plain INSERT and commits; a
\* conflict on the unique index raises sqlite3.IntegrityError out of store().
gaea_store_insert(p) ==
    /\ procs[p].pc = "insert"
    /\ LET res == PlainInsert(schema, signals, gaea_insert_vals(schema, procs[p].payload))
       IN  /\ signals' = res.rows
           /\ last' = [op |-> "gaea_store", row |-> procs[p].payload,
                       ret |-> IF res.outcome = "inserted" THEN 1 ELSE -1,
                       outcome |-> res.outcome]
    /\ Len(signals') <= MaxSignals
    /\ procs' = [procs EXCEPT ![p] = IdleProc]
    /\ UNCHANGED <<schema, rss_seen, actions, engine_state, ran, lock,
                   object_index, pipeline, akashVars>>

\* akash_fetch.store_event's payload for a release, saved by either run.
AdapterSaveSignal ==
    /\ \E url \in {UrlV1, UrlV2} :
          save_signal([ts |-> Str("2026-11-01T00:00:00Z"), object |-> Str("Akash Network"),
                       source |-> Str("akash/github"), kind |-> Str("release"),
                       title |-> Str("v1.0.0"), url |-> url, body |-> Str("release notes"),
                       meta |-> Str("{}"), raw |-> Str("{}")])
    /\ Len(signals') <= MaxSignals
    /\ UNCHANGED <<rss_seen, engineVars>>

FetchRssRepublished ==
    /\ \E e \in RepublishedEntries : fetch_rss_entry(e)
    /\ Len(signals') <= MaxSignals
    /\ UNCHANGED engineVars

\* Two runs of the release adapters, overlapping.
NextStoreOverlap ==
    \/ EnsureColumns
    \/ \E p \in Procs : gaea_store_check(p)
    \/ \E p \in Procs : gaea_store_insert(p)
    \/ AdapterSaveSignal

SpecStoreOverlap == InitStore /\ [][NextStoreOverlap]_vars

\* The same with the feed adapter and the scoring passes.
NextAdapters ==
    \/ NextStoreOverlap
    \/ FetchRssRepublished
    \/ ScoreSignalsMain
    \/ AnalyzeSignalRun

SpecAdapters == InitStore /\ [][NextAdapters]_vars

\* C11: when two overlapping runs store the same non-empty (source, url),
\* through save_signal or through gaea_fetch.store's check-then-insert, then
\* under every interleaving of their check and insert steps no pair is ever
\* held by two rows, and once a store of the pair has returned (or raised)
\* exactly one row holds it.
C11_OneRowUnderOverlap ==
    /\ UniquePairs(signals)
    /\ last.op \in {"gaea_store", "save_signal"} =>
          Cardinality(RowsWith(signals, last.row["source"], last.row["url"])) = 1

\* Both runs passed signal_exists for the same url before either inserted; the
\* second INSERT was rejected by the index and one row holds the pair.
C11_Witness ==
    /\ last.op = "gaea_store" /\ last.outcome = "IntegrityError"
    /\ Cardinality(RowsWith(signals, Str("gaea/github"), last.row["url"])) = 1

\* C12: a duplicate-key violation on a signals insert is never surfaced as an
\* error by an adapter: fetch_rss.run goes on when two feed entries have the
\* same url and different titles, and gaea_fetch.store goes on when the unique
\* (source, url) index rejects its insert.
C12_DuplicateNeverSurfaces ==
    last.op \in {"fetch_rss", "gaea_store"} => last.outcome # "IntegrityError"

\* C16: after any sequence of adapter inserts (save_signal, gaea_fetch
\* insert_signal, fetch_rss insert_signal) and scoring passes, every stored
\* row has a populated score, color and label, and its score is a number
\* between 0 and 1.
C16_ScoredFieldsPopulated ==
    \A i \in 1..Len(signals) :
        /\ IsNum(signals[i]["score"])
        /\ signals[i]["score"].n >= 0 /\ signals[i]["score"].n <= Scale
        /\ NonEmpty(signals[i]["color"])
        /\ NonEmpty(signals[i]["label"])

(***************************************************************************)
(* akash_fetch.main against the releases GitHub lists                      *)
(***************************************************************************)
MaxReleases == 3
PerPage == 10

\* The n-th release of the repository, as the GitHub API returns it.
Release(n) ==
    [tag_name |-> Str("v" \o ToString(n)),
     name |-> IF n % 2 = 0 THEN Str("Akash v" \o ToString(n)) ELSE NULL,
     html_url |-> Str("https://github.com/akash-network/node/releases/tag/v" \o ToString(n)),
     published_at |-> Str("2026-10-0" \o ToString(n) \o "T12:00:00Z"),
     body |-> IF n = 1 THEN NULL ELSE Str("notes " \o ToString(n))]

normalize_release(rel) ==
    [kind |-> Str("release"), title |-> Or(Get(rel, "name"), Get(rel, "tag_name")),
     url |-> Get(rel, "html_url"),
     ts |-> Or(Get(rel, "published_at"), Get(rel, "created_at")),
     body |-> Or(Get(rel, "body"), Str("")), tag |-> Get(rel, "tag_name")]

\* cursor = f"{ev['ts']}|{ev.get('tag')}"; None is formatted as "None".
cursor_of(ev) ==
    LET Fmt(v) == IF v = NULL THEN "None" ELSE v.s
    IN  Fmt(ev.ts) \o "|" \o Fmt(ev.tag)

\* Mutant: store_event drops the release.
store_event_dropped(rows, ev, source) == rows

\* store_event(event, raw, source): builds the payload and calls save_signal,
\* whose return value it drops; the value here is the table afterwards.
store_event(rows, ev, source) ==
    InsertOrIgnore(schema, rows,
        InsertVals(schema,
            [ts |-> ev.ts, object |-> Str("Akash Network"), source |-> Str(source),
             kind |-> ev.kind, title |-> ev.title, url |-> ev.url, body |-> ev.body,
             meta |-> Str("{}"), raw |-> Str("{}")])).rows

\* akash_fetch.main(): `ok` is whether the request to GitHub succeeded.  The
\* cursor is read with get_last_seen; fetch_github_releases gives the first
\* page of the list, newest first.
akash_fetch_main(ok) ==
    LET source == "akash/github/releases"
        cur == Get(cursors, source)
        Fetched == SubSeq(upstream.list, 1, Min(PerPage, Len(upstream.list)))
        evs == [k \in 1..Len(Fetched) |-> normalize_release(Release(Fetched[k]))]
        RECURSIVE StoreAll(_, _)
        StoreAll(rows, items) ==
            IF items = <<>> THEN rows
            ELSE StoreAll(store_event(rows, items[1], "akash/github"), Tail(items))
        hits == {k \in 1..Len(evs) : Str(cursor_of(evs[k])) = cur}
        \* the loop: the number of leading releases it collects
        n == IF evs = <<>> THEN 0
             ELSE IF cur = NULL THEN 1
             ELSE IF hits = {} THEN Len(evs)
             ELSE SetMin(hits) - 1
        new_items == [j \in 1..n |-> evs[n + 1 - j]]
    IN  /\ IF ~ok
           THEN /\ last' = [op |-> "akash_fetch", outcome |-> "error", ret |-> 2,
                            cursor |-> cur, list |-> <<>>]
                /\ UNCHANGED <<signals, cursors>>
           ELSE IF n = 0
           THEN /\ last' = [op |-> "akash_fetch", outcome |-> "no new releases",
                            ret |-> 0, cursor |-> cur, list |-> Fetched]
                /\ UNCHANGED <<signals, cursors>>
           ELSE /\ signals' = StoreAll(signals, new_items)
                /\ cursors' = Put(cursors, source, Str(cursor_of(new_items[n])))
                /\ last' = [op |-> "akash_fetch", outcome |-> "stored", ret |-> 0,
                            cursor |-> cur, list |-> Fetched]
        /\ UNCHANGED <<schema, rss_seen, actions, engine_state, ran, procs, lock,
                       object_index, pipeline, upstream, web, pdfVars>>

\* The maintainers publish the next release.
PublishRelease ==
    /\ upstream.published < MaxReleases
    /\ upstream' = [list |-> <<upstream.published + 1>> \o upstream.list,
                    published |-> upstream.published + 1]
    /\ UNCHANGED <<schema, signals, rss_seen, actions, engine_state, ran, procs, lock,
                   object_index, pipeline, cursors, web, pdfVars, last>>

\* The maintainers delete a release; GitHub lists it no more.
RetractRelease ==
    /\ \E k \in 1..Len(upstream.list) :
          upstream' = [upstream EXCEPT
                         !.list = SubSeq(@, 1, k - 1) \o SubSeq(@, k + 1, Len(@))]
    /\ UNCHANGED <<schema, signals, rss_seen, actions, engine_state, ran, procs, lock,
                   object_index, pipeline, cursors, web, pdfVars, last>>

NextAkash ==
    \/ \E ok \in BOOLEAN : akash_fetch_main(ok)
    \/ PublishRelease
    \/ RetractRelease

SpecAkash == InitStore /\ [][NextAkash]_vars

\* The release a stored row was made from.
ReleaseOf(r) == CHOOSE n \in 1..MaxReleases : Release(n).html_url = r["url"]

\* The stored row is the signal of release n.
IsSignalOf(r, n) ==
    LET ev == normalize_release(Release(n))
    IN  /\ r["source"] = Str("akash/github")
        /\ r["url"] = ev.url /\ r["title"] = ev.title /\ r["ts"] = ev.ts

\* The cursor string of release n.
CursorOfRelease(n) == Str(cursor_of(normalize_release(Release(n))))

\* C13: the first run (no cursor recorded) over a non-empty newest-first list
\* stores exactly one signal, the most recent release, and sets the cursor to
\* that release; releases older than it are never stored, by this run or by
\* any later one.
C13_BaselineNoBackfill ==
    /\ (last.op = "akash_fetch" /\ last.cursor = NULL /\ last.list # <<>>) =>
          /\ Len(signals) = 1
          /\ IsSignalOf(signals[1], last.list[1])
          /\ Get(cursors, "akash/github/releases") = CursorOfRelease(last.list[1])
    /\ \A i \in 1..Len(signals) : ReleaseOf(signals[i]) >= ReleaseOf(signals[1])

\* A run of akash_fetch.main that reached GitHub, as a step.
C14_Step ==
    (upstream' = upstream /\ last'.op = "akash_fetch" /\ last'.outcome # "error") =>
        LET list == last'.list
            cur == Get(cursors, "akash/github/releases")
            at == {k \in 1..Len(list) : CursorOfRelease(list[k]) = cur}
            k == SetMin(at)
        IN  /\ (cur # NULL /\ at # {}) =>
                  /\ Len(signals') = Len(signals) + k - 1
                  /\ SubSeq(signals', 1, Len(signals)) = signals
                  /\ \A j \in 1..(k - 1) :
                        IsSignalOf(signals'[Len(signals) + j], list[k - j])
                  /\ IF k = 1 THEN cursors' = cursors
                     ELSE Get(cursors', "akash/github/releases") = CursorOfRelease(list[1])
            /\ (last.op = "akash_fetch" /\ last.outcome # "error" /\ last.list = list) =>
                  (signals' = signals /\ cursors' = cursors)

\* C14: on a run with a recorded cursor, akash_fetch.main stores exactly the
\* releases that precede the cursor's release in the newest-first list, oldest
\* first, and then sets the cursor to the newest release; when the upstream
\* list is what the previous run fetched, it stores nothing and leaves the
\* cursor unchanged.
C14_StoresReleasesSinceCursor == [][C14_Step]_vars

\* A run found the cursor's release behind two newer ones and stored both,
\* the older of the two first.
C14_Witness ==
    /\ last.op = "akash_fetch" /\ last.outcome = "stored"
    /\ Len(last.list) >= 3 /\ last.cursor = CursorOfRelease(last.list[3])
    /\ Len(signals) >= 3
    /\ IsSignalOf(signals[Len(signals) - 1], last.list[2])
    /\ IsSignalOf(signals[Len(signals)], last.list[1])
    /\ Get(cursors, "akash/github/releases") = CursorOfRelease(last.list[1])

\* C15: one run of run_all.main runs the stages in the order adapters,
\* scoring, Decision Engine, object index, each to completion: by the time
\* the index stage has been run, a scoring pass and after it the Decision
\* Engine have been run, to exit code 0, after every adapter.
C15_ScoredAndOfferedBeforeIndex ==
    \A k \in 1..Len(Stages) :
        (Stages[k] = "oii_snapshot.py" /\ pipeline.exit[k] # -1) =>
            \E i, j \in 1..(k - 1) :
                /\ i < j
                /\ Stages[i] \in {"score_signals.py", "analyze_signal.py"}
                /\ Stages[j] = "decision_engine.py"
                /\ pipeline.exit[i] = 0 /\ pipeline.exit[j] = 0
                /\ \A a \in 1..(k - 1) : a \notin {i, j} => a < i

\* C17: each run of oii_snapshot.main writes exactly one object_index row for
\* every object of the allow-list, the objects without a signal in the 30-day
\* window included, and no row for an object outside the allow-list.
C17_RowPerAllowListObject ==
    last.op = "oii_snapshot" =>
        /\ last.objects = WHITELIST
        /\ WHITELIST \subseteq DOMAIN object_index
        /\ DOMAIN object_index \subseteq WHITELIST

\* C18: when the candidate of save_signal has no text, the stored text is the
\* candidate's body if it has one, otherwise its title; akash_fetch.store_event,
\* which supplies body and title and no text, stores a text equal to its body.
C18_TextFallsBackToBody ==
    (/\ last.op = "save_signal" /\ last.outcome = "inserted"
     /\ ~Truthy(Get(last.row, "text"))
     /\ Truthy(Or(Get(last.row, "body"), Get(last.row, "title")))) =>
        signals[Len(signals)]["text"] = Or(Get(last.row, "body"), Get(last.row, "title"))

\* C19: when the candidate of save_signal has no usable score, color or label
\* (the key absent or its value null), the stored row has score 0.35, color
\* "neutral" and label "neutral".
C19_NeutralDefaults ==
    (/\ last.op = "save_signal" /\ last.outcome = "inserted"
     /\ \A k \in {"score", "color", "label", "level", "project"} :
           Get(last.row, k) = NULL) =>
        /\ signals[Len(signals)]["score"] = Num(350)
        /\ signals[Len(signals)]["color"] = Str("neutral")
        /\ signals[Len(signals)]["label"] = Str("neutral")

(***************************************************************************)
(* fetch_bittensor_metrics.save_bittensor_metrics_sqlite over time         *)
(***************************************************************************)
\* The times of the calls, in minutes since 2026-11-02T00:00 UTC: midnight of
\* 3 November, 5 and 20 minutes past it, and 5 past midnight a day later.
Instants == {1440, 1445, 1460, 2885}

\* The blocks a sample can report ("" when the block query failed).
Blocks == {"100", "101", ""}

\* Time t written as date, separator, time of day (to the second).
Stamp(t, sep) ==
    LET Pad2(n) == IF n < 10 THEN "0" \o ToString(n) ELSE ToString(n)
    IN  "2026-11-0" \o ToString(2 + t \div 1440) \o sep
            \o Pad2((t % 1440) \div 60) \o ":" \o Pad2(t % 60) \o ":00"

\* datetime.now(timezone.utc).isoformat() at time t.
IsoFormat(t) == Stamp(t, "T") \o ".500000+00:00"

\* SQLite's datetime('now','-10 minutes') at time t.
SqliteCutoff(t) == Stamp(t - 10, " ")

\* save_bittensor_metrics_sqlite(metrics, netuid=1) at time t, metrics["block"]
\* being `block`: the dedup SELECT, then _insert_signal_row's INSERT OR IGNORE.
save_bittensor_metrics_sqlite(t, block) ==
    LET url == Str("bt://metrics/netuid=1/block=" \o block)
        row == [ts |-> Str(IsoFormat(t)), origin |-> Str("bittensor"),
                project |-> Str("bittensor"), kind |-> Str("metric"),
                title |-> Str("Bittensor metrics (netuid=1)"), url |-> url,
                text |-> Str("{block: " \o block \o "}"), meta |-> Str("{}"),
                sentiment |-> Str("neutral"), score |-> Num(350),
                color |-> Str("neutral"), label |-> Str("bittensor"),
                source |-> Str("bittensor"), horizon |-> Str("T2")]
        found == \E i \in 1..Len(signals) :
                    /\ signals[i]["url"] = url
                    /\ signals[i]["ts"] # NULL
                    /\ ~TextLess(signals[i]["ts"].s, SqliteCutoff(t))
        defaults == [summary |-> row.text, level |-> Str("neutral")]
        full == row @@ defaults
        vals == [c \in DOMAIN full \cap schema.cols |-> full[c]]
        res == InsertOrIgnore(schema, signals, vals)
    IN  /\ IF found
           THEN /\ UNCHANGED signals
                /\ last' = [op |-> "save_bittensor_metrics", url |-> url, now |-> t,
                            outcome |-> "skip"]
           ELSE /\ signals' = res.rows
                /\ last' = [op |-> "save_bittensor_metrics", url |-> url, now |-> t,
                            outcome |-> res.outcome]
        /\ UNCHANGED <<schema, rss_seen, engineVars>>

\* The time of writing of a metrics row.
InstantOf(r) == CHOOSE t \in Instants : Str(IsoFormat(t)) = r["ts"]

\* A sample is saved at a time no earlier than the rows already written.
SaveBittensorMetrics ==
    \E t \in Instants, block \in Blocks :
        /\ \A i \in 1..Len(signals) : InstantOf(signals[i]) <= t
        /\ save_bittensor_metrics_sqlite(t, block)

NextMetrics == SaveBittensorMetrics

SpecMetrics == InitStore /\ [][NextMetrics]_vars

\* The rows with the sample's key, before the call, and their ages in minutes.
C20_Step ==
    (last'.op = "save_bittensor_metrics" /\ <<signals, last>>' # <<signals, last>>) =>
        LET same == {i \in 1..Len(signals) : signals[i]["url"] = last'.url}
            Age(i) == last'.now - InstantOf(signals[i])
        IN  /\ (\E i \in same : Age(i) <= 10) => signals' = signals
            /\ (same # {} /\ \A i \in same : Age(i) > 10) =>
                  /\ Len(signals') = Len(signals) + 1
                  /\ signals'[Len(signals')]["url"] = last'.url

\* C20: save_bittensor_metrics_sqlite inserts no metric signal when a row with
\* the identical key (url bt://metrics/netuid=N/block=B) was written within
\* the last 10 minutes, and does insert the sample when the only rows with
\* that key are older than 10 minutes.
C20_TenMinuteDedup == [][C20_Step]_vars

(***************************************************************************)
(* The Decision Engine's watermark                                         *)
(***************************************************************************)
\* The persisted watermark as main reads it.
LastId(v) == IntOfStr(get_state(v, "0"))

C21_Step ==
    \A p \in Procs :
        LET pr == procs[p]
        IN  \* the rows are read in ascending id order, from the watermark on
            /\ (pr.pc = "idle" /\ procs'[p].pc = "loop") =>
                  procs'[p].i = LastId(engine_state) + 1
            /\ (pr.pc = "loop" /\ procs'[p].pc = "loop" /\ procs'[p] # pr) =>
                  procs'[p].i = pr.i + 1
            \* the run completes
            /\ (pr.pc = "commit" /\ procs'[p].pc = "idle" /\ last'.outcome = "ok") =>
                  engine_state' = Str(ToString(Max(pr.last_id, pr.n)))
            \* the run aborts before the end of the batch
            /\ (pr.pc \in {"loop", "commit"} /\ procs'[p].pc = "idle"
                                            /\ last'.outcome # "ok") =>
                  engine_state' = engine_state

\* C21: a Decision Engine run reads the signals with id greater than the
\* persisted watermark in ascending id order; when it completes, the persisted
\* watermark is the maximum of the watermark it started from and the largest
\* signal id it read; when it aborts before the end of the batch, the
\* persisted watermark is unchanged.
C21_WatermarkAdvance == [][C21_Step]_vars

\* A run was aborted while signal 2 lay beyond the watermark 1, and the
\* watermark is still 1.
C21_Witness ==
    /\ last.op = "decision_engine" /\ last.outcome \in {"OperationalError", "aborted"}
    /\ engine_state = Str("1") /\ Len(signals) = 2

C26_Step ==
    /\ \A p \in Procs :
          \* the one commit of a run: its action inserts and its watermark together
          /\ (procs[p].pc = "commit" /\ procs'[p].pc = "idle" /\ last'.outcome = "ok") =>
                /\ actions' = actions \o procs[p].pend
                /\ engine_state' = Str(ToString(procs[p].max_id))
                /\ \A id \in (procs[p].last_id + 1)..procs[p].n :
                      LET a == action_for_signal(id, signals[id])
                      IN  a # NULL =>
                             \E k \in 1..Len(actions') : actions'[k].signal_id = id
          \* an abort in mid-batch
          /\ (procs[p].pc \in {"loop", "commit"} /\ last'.outcome # "ok"
                                               /\ procs'[p].pc = "idle") =>
                (actions' = actions /\ engine_state' = engine_state)
    \* nothing but a commit changes the actions or advances the watermark
    /\ (actions' # actions \/ (engine_state' # engine_state /\ engine_state' # NULL)) =>
          \E p \in Procs :
              procs[p].pc = "commit" /\ procs'[p].pc = "idle" /\ last'.outcome = "ok"

\* C26: in decision_engine.main the action inserts of a batch and the
\* watermark update are committed by one commit: the committed store changes
\* only by a step that adds all actions of a batch together with its
\* watermark, and an abort in mid-batch persists neither actions nor
\* watermark.
C26_BatchCommittedAtomically == [][C26_Step]_vars

\* A run with an uncommitted action insert was aborted; the committed actions
\* table is empty and no watermark is stored.
C26_Witness ==
    /\ last.op = "decision_engine" /\ last.outcome = "aborted" /\ last.inserted > 0
    /\ actions = <<>> /\ engine_state = NULL

(***************************************************************************)
(* Selection of score_signals.main                                         *)
(***************************************************************************)
\* A completed call score_signals.main(limit), as a step.
C22_Step ==
    \A limit \in 1..MaxLimit :
        (score_signals_main(limit) /\ last'.outcome = "ok") =>
            LET pending == {i \in 1..Len(signals) : ~NonEmpty(signals[i]["rationale"])}
                updated == {i \in 1..Len(signals) : signals'[i] # signals[i]}
            IN  /\ Len(signals') = Len(signals)
                /\ Cardinality(updated) = Min(limit, Cardinality(pending))
                /\ updated \subseteq pending
                /\ \A i \in updated, j \in pending \ updated : i > j

\* C22: score_signals.main(limit) updates exactly min(limit, P) rows, P being
\* the number of signals with a null or empty rationale; the rows it updates
\* are the pending rows with the largest ids; a row with a non-empty rationale
\* is never selected.
C22_NewestPendingUpToLimit == [][C22_Step]_vars

\* A call with limit 1 over two pending rows updated the newer one only.
C22_Witness ==
    /\ last.op = "score_signals" /\ last.outcome = "ok" /\ last.ids = {2}
    /\ Len(signals) = 2
    /\ ~NonEmpty(signals[1]["rationale"]) /\ NonEmpty(signals[2]["rationale"])

(***************************************************************************)
(* The watermark over a sequence of runs                                   *)
(***************************************************************************)
\* C27: the persisted watermark engine:last_id never decreases over any
\* sequence of Decision Engine runs, adapter calls and scoring passes in
\* between, runs that find no new signal included.
C27_WatermarkNeverDecreases ==
    [][LastId(engine_state') >= LastId(engine_state)]_vars

\* A run that found no new signal, over a watermark above zero.
C27_Witness ==
    /\ last.op = "decision_engine" /\ last.outcome = "ok" /\ last.processed = 0
    /\ LastId(engine_state) >= 1

(***************************************************************************)
(* Signals scored after the Decision Engine has passed them                *)
(***************************************************************************)
\* The actions rows of signal id, in a given actions table.
ActionRowsOf(acts, id) == {acts[k] : k \in {j \in 1..Len(acts) : acts[j].signal_id = id}}

\* `ran` is the largest signal id a completed run has read.
C25_Step ==
    /\ \A id \in 1..ran : ActionRowsOf(actions', id) = ActionRowsOf(actions, id)
    /\ \A id \in 1..ran :
          Strip(StrOf(signals[id]["color"])) \in {"neutral", "U+26AA"} =>
              (ActionRowsOf(actions, id) = {} /\ ActionRowsOf(actions', id) = {})

\* C25: the Decision Engine judges a signal by the colour it has in the run in
\* which its id first exceeds the watermark; no later step, a later scoring
\* pass that colours it red or yellow and a later engine run included, adds,
\* removes or changes an action of a signal a completed run has already read,
\* and a signal read while unscored has none.
C25_JudgedOnceAtFirstPass == [][C25_Step]_vars

\* A signal the engine read while unscored was coloured red or yellow by a
\* later scoring pass, a later engine run has completed, and it has no action.
C25_Witness ==
    /\ last.op = "decision_engine" /\ last.outcome = "ok" /\ last.prev >= 1
    /\ \E id \in 1..last.prev :
          /\ Strip(StrOf(signals[id]["color"])) \in {"U+1F534", "U+1F7E1"}
          /\ ~StartsWith(StrOf(signals[id]["rationale"]), "rule:")    \* by score_signals
          /\ ActionRowsOf(actions, id) = {}

(***************************************************************************)
(* rss_fetch.fetch_url: the retry loop, one step per attempt and per wait  *)
(***************************************************************************)
\* range(4): the attempts of one call.
Attempts == 4

\* Mutant: the wait is the same after every failed attempt.
backoff_flat(attempt) == 1500

\* time.sleep(1.5 * (attempt + 1)), in milliseconds.
backoff(attempt) == 1500 * (attempt + 1)

\* What one requests.get + raise_for_status can give: a body, or an exception.
Responses ==
    { [ok |-> TRUE, v |-> b] : b \in {"<rss>a</rss>", "<rss>b</rss>"} }
    \cup { [ok |-> FALSE, v |-> e] : e \in {"ConnectionError", "HTTPError 503"} }

\* The process that runs rss_fetch.main; it calls fetch_url once per source,
\* one call after the other.
Fetcher == "p1"

\* fetch_url(url) is called: last = None, the loop is at attempt 0.
fetch_url_call ==
    /\ procs[Fetcher].pc = "idle"
    /\ procs' = [procs EXCEPT ![Fetcher] =
                   [pc |-> "get", attempt |-> 0, last |-> "None", slept |-> <<>>,
                    log |-> <<>>]]
    /\ UNCHANGED <<schema, signals, rss_seen, actions, engine_state, ran, lock,
                   object_index, pipeline, akashVars, last>>

\* One pass of the try block: the body is returned, or the exception is kept
\* in `last` and the call goes on to sleep.
fetch_url_get ==
    LET pr == procs[Fetcher]
    IN  /\ pr.pc = "get"
        /\ pr.attempt < Attempts
        /\ \E r \in Responses :
              IF r.ok
              THEN /\ procs' = [procs EXCEPT ![Fetcher] = IdleProc]
                   /\ last' = [op |-> "fetch_url", outcome |-> "returned", ret |-> r.v,
                               log |-> Append(pr.log, r), slept |-> pr.slept]
              ELSE /\ procs' = [procs EXCEPT ![Fetcher] =
                                  [pr EXCEPT !.pc = "sleep", !.last = r.v,
                                             !.log = Append(@, r)]]
                   /\ UNCHANGED last
        /\ UNCHANGED <<schema, signals, rss_seen, actions, engine_state, ran, lock,
                       object_index, pipeline, akashVars>>

\* time.sleep returns; the loop goes to the next attempt, or ends.
fetch_url_sleep ==
    LET pr == procs[Fetcher]
    IN  /\ pr.pc = "sleep"
        /\ procs' = [procs EXCEPT ![Fetcher] =
                       [pr EXCEPT !.slept = Append(@, backoff(pr.attempt)),
                                  !.attempt = @ + 1,
                                  !.pc = IF pr.attempt + 1 < Attempts THEN "get"
                                         ELSE "raise"]]
        /\ UNCHANGED <<schema, signals, rss_seen, actions, engine_state, ran, lock,
                       object_index, pipeline, akashVars, last>>

\* raise last
fetch_url_raise ==
    LET pr == procs[Fetcher]
    IN  /\ pr.pc = "raise"
        /\ procs' = [procs EXCEPT ![Fetcher] = IdleProc]
        /\ last' = [op |-> "fetch_url", outcome |-> "raised", ret |-> pr.last,
                    log |-> pr.log, slept |-> pr.slept]
        /\ UNCHANGED <<schema, signals, rss_seen, actions, engine_state, ran, lock,
                       object_index, pipeline, akashVars>>

FetchUrlStep == fetch_url_get \/ fetch_url_sleep \/ fetch_url_raise

NextFetchUrl ==
    \/ fetch_url_call
    \/ fetch_url_get
    \/ fetch_url_sleep
    \/ fetch_url_raise

\* requests.get is given a timeout and time.sleep a finite time, so a call
\* that has a step to take takes it.
SpecFetchUrl ==
    InitStore /\ [][NextFetchUrl]_vars /\ WF_vars(FetchUrlStep)

\* A call in progress: at most Attempts attempts, all of them failed so far,
\* and the k-th wait was 1.5 * k seconds.
C23_InProgress(pr) ==
    /\ Len(pr.log) <= Attempts
    /\ \A k \in 1..Len(pr.log) : ~pr.log[k].ok
    /\ \A k \in 1..Len(pr.slept) : pr.slept[k] = 1500 * k
    /\ Len(pr.slept) = IF pr.pc = "sleep" THEN Len(pr.log) - 1 ELSE Len(pr.log)

\* A call that has ended.
C23_Ended ==
    LET n == Len(last.log)
    IN  /\ n \in 1..Attempts
        /\ \A k \in 1..(n - 1) : ~last.log[k].ok
        /\ \A k \in 1..Len(last.slept) :
              /\ last.slept[k] = 1500 * k
              /\ k > 1 => last.slept[k] > last.slept[k - 1]
        /\ last.outcome = "returned" =>
              /\ last.log[n].ok /\ last.ret = last.log[n].v
              /\ Len(last.slept) = n - 1
        /\ last.outcome = "raised" =>
              /\ n = Attempts /\ ~last.log[n].ok /\ last.ret = last.log[n].v
              /\ Len(last.slept) = Attempts

C23_Safe ==
    /\ procs[Fetcher].pc # "idle" => C23_InProgress(procs[Fetcher])
    /\ last.op = "fetch_url" => C23_Ended

\* C23: fetch_url always terminates; it makes at most 4 attempts, returns the
\* body of the first successful attempt without a further attempt, waits
\* 1.5 * k seconds after the k-th failed attempt, and after 4 failed attempts
\* raises the exception of the last one.
C23_FetchUrlTerminates ==
    /\ []C23_Safe
    /\ (procs[Fetcher].pc # "idle") ~> (procs[Fetcher].pc = "idle")

\* A call raised after four failures whose last exception differs from the
\* one before it.
C23_Witness ==
    /\ last.op = "fetch_url" /\ last.outcome = "raised"
    /\ last.log[3].v # last.log[4].v
    /\ last.slept = <<1500, 3000, 4500, 6000>>

(***************************************************************************)
(* gaea_fetch.fetch_github: the releases of the org and the cursor         *)
(***************************************************************************)
MaxGaeaReleases == 3

GithubSource == "gaea/github"

\* published_at of a release as the API gives it; "" for null (a draft).
PublishedAt == {"", "2026-11-01T00:00:00Z", "2026-11-02T00:00:00Z", "2026-11-03T00:00:00Z"}

\* The n-th release of the org's repository "node", as the API lists it.
GaeaRelease(n, pub) ==
    [html_url |-> "https://github.com/aigaea/node/releases/tag/v" \o ToString(n),
     tag_name |-> "v" \o ToString(n), published_at |-> pub, body |-> "notes"]

\* get_cursor(conn, source)
get_cursor(source) == Get(cursors, source)

\* set_cursor(conn, source, cursor): insert, or update on conflict.
set_cursor(cs, source, cursor) == Put(cs, source, Str(cursor))

\* Mutant: only releases strictly older than the cursor are skipped.
github_skip_older(lst, pub) == Truthy(lst) /\ pub # "" /\ TextLess(pub, lst.s)

\* `if last and pub and pub <= last: continue`
github_skip(lst, pub) == Truthy(lst) /\ pub # "" /\ ~TextLess(lst.s, pub)

\* Mutant: store() goes to insert_signal without asking signal_exists.
gaea_store_unchecked(sch, rows, it) ==
    PlainInsert(sch, rows,
                gaea_insert_vals(sch, it @@ [object |-> Str("GAEA"), meta |-> Str("{}"),
                                             raw |-> Str("{}")]))

\* store(): signal_exists on the url, then insert_signal's plain INSERT.
\* [rows, outcome] with outcome "exists", "inserted" or "IntegrityError".
gaea_store(sch, rows, it) ==
    IF "url" \in sch.cols /\ \E i \in 1..Len(rows) : rows[i]["url"] = it.url
    THEN [rows |-> rows, outcome |-> "exists"]
    ELSE PlainInsert(sch, rows,
                     gaea_insert_vals(sch, it @@ [object |-> Str("GAEA"), meta |-> Str("{}"),
                                                  raw |-> Str("{}")]))

\* The loop of fetch_github over the releases fetched:
\* [rows, newest, outcome] after rels[from..].
RECURSIVE GithubLoop(_, _, _, _, _)
GithubLoop(rels, from, rows, lst, newest) ==
    IF from > Len(rels) THEN [rows |-> rows, newest |-> newest, outcome |-> "ok"]
    ELSE LET r == rels[from]
             pub == r.published_at
             st == IF r.html_url # ""
                   THEN gaea_store(schema, rows,
                                   [source |-> Str(GithubSource), kind |-> Str("release"),
                                    title |-> Str("node: " \o r.tag_name),
                                    url |-> Str(r.html_url), body |-> Str(r.body),
                                    ts |-> IF pub # "" THEN Str(pub) ELSE NowTs])
                   ELSE [rows |-> rows, outcome |-> "exists"]
             nw == IF pub # "" /\ (~Truthy(newest) \/ TextLess(newest.s, pub))
                   THEN Str(pub) ELSE newest
         IN  IF github_skip(lst, pub) THEN GithubLoop(rels, from + 1, rows, lst, newest)
             ELSE IF st.outcome = "IntegrityError"
             THEN [rows |-> rows, newest |-> newest, outcome |-> "IntegrityError"]
             ELSE GithubLoop(rels, from + 1, st.rows, lst, nw)

\* fetch_github(conn); ok: the two API requests succeed.
fetch_github(ok) ==
    LET lst == get_cursor(GithubSource)
        rels == IF ok THEN web.releases ELSE <<>>
        res == GithubLoop(rels, 1, signals, lst, lst)
    IN  /\ signals' = res.rows
        /\ cursors' = IF res.outcome = "ok" /\ Truthy(res.newest) /\ res.newest # lst
                      THEN set_cursor(cursors, GithubSource, res.newest.s)
                      ELSE cursors
        /\ last' = [op |-> "fetch_github",
                    outcome |-> IF ok THEN res.outcome ELSE "failed repos",
                    cursor |-> lst, list |-> rels, ret |-> Len(res.rows) - Len(signals)]
        /\ UNCHANGED <<schema, rss_seen, actions, engine_state, ran, procs, lock,
                       object_index, pipeline, upstream, web, pdfVars>>

\* A maintainer publishes a release, or saves a draft; GitHub lists it first.
PublishGaeaRelease ==
    /\ Len(web.releases) < MaxGaeaReleases
    /\ \E pub \in PublishedAt :
          web' = [web EXCEPT !.releases = <<GaeaRelease(Len(@) + 1, pub)>> \o @]
    /\ UNCHANGED <<schema, signals, rss_seen, actions, engine_state, ran, procs, lock,
                   object_index, pipeline, cursors, upstream, pdfVars, last>>

NextGaeaGithub ==
    \/ \E ok \in BOOLEAN : fetch_github(ok)
    \/ PublishGaeaRelease

SpecGaeaGithub == InitStore /\ [][NextGaeaGithub]_vars

\* The release a stored signal row was made from.
GaeaReleaseOf(row) == CHOOSE r \in {web.releases[k] : k \in 1..Len(web.releases)} :
                          Str(r.html_url) = row["url"]

C24_Step ==
    LET old == Get(cursors, GithubSource)
        new == Get(cursors', GithubSource)
        fetched == {last'.list[k].published_at : k \in 1..Len(last'.list)}
    IN  /\ DOMAIN cursors \subseteq DOMAIN cursors'
        /\ old # NULL => (new # NULL /\ ~TextLess(new.s, old.s))
        /\ new # old =>
              /\ last'.op = "fetch_github" /\ last'.cursor = old
              /\ new.s \in fetched \ {""}
              /\ old # NULL => TextLess(old.s, new.s)
              /\ \A pub \in fetched \ {""} : ~TextLess(new.s, pub)
        /\ \A i \in (Len(signals) + 1)..Len(signals') :
              LET pub == GaeaReleaseOf(signals'[i]).published_at
              IN  (old # NULL /\ pub # "") => TextLess(old.s, pub)

\* C24: over any sequence of fetch_github runs the gaea/github cursor is
\* rewritten only when a fetched release has a published_at strictly greater
\* than the stored cursor (and then to the greatest one fetched); its value
\* never decreases; the row is never deleted; and no release whose
\* published_at is at or before the stored cursor is stored.
C24_CursorAdvancesOnNewerRelease == [][C24_Step]_vars

\* A run that met a release at the cursor and one before it, stored neither,
\* and left the cursor as it was.
C24_Witness ==
    /\ last.op = "fetch_github" /\ last.outcome = "ok" /\ last.cursor # NULL
    /\ Get(cursors, GithubSource) = last.cursor
    /\ \E j, k \in 1..Len(last.list) :
          /\ Str(last.list[j].published_at) = last.cursor
          /\ last.list[k].published_at # "" /\ TextLess(last.list[k].published_at, last.cursor.s)
          /\ \A i \in 1..Len(signals) :
                signals[i]["url"] \notin {Str(last.list[j].html_url), Str(last.list[k].html_url)}

(***************************************************************************)
(* gaea_fetch.fetch_site_pages: change detection by content hash           *)
(***************************************************************************)
GAEA_SITE_PAGES ==
    <<"https://app.aigaea.net/missions/", "https://app.aigaea.net/engine/?view=whitepaper",
      "https://aigaea.net/engine/">>

SiteSource == "gaea/site"

\* What a page can serve.
Htmls == {"<html>a</html>", "<html>b</html>"}

\* simple_hash(text): sha256 hex digest.
simple_hash(text) == sha(text)

\* The loop of fetch_site_pages from page `from` on; `down` are the pages
\* whose http_get raises: [rows, cs, outcome].
RECURSIVE SitePagesLoop(_, _, _, _)
SitePagesLoop(from, down, rows, cs) ==
    IF from > Len(GAEA_SITE_PAGES) THEN [rows |-> rows, cs |-> cs, outcome |-> "ok"]
    ELSE LET url == GAEA_SITE_PAGES[from]
             key == SiteSource \o ":" \o url
             lst == Get(cs, key)
             h == simple_hash(web.pages[url])
             st == gaea_store(schema, rows,
                              [source |-> Str(SiteSource), kind |-> Str("page_update"),
                               title |-> Str("GAEA page update: " \o url), url |-> Str(url),
                               body |-> Str(""), ts |-> NowTs])
         IN  IF url \in down \/ url \notin DOMAIN web.pages
             THEN SitePagesLoop(from + 1, down, rows, cs)
             ELSE IF Truthy(lst) /\ Str(h) = lst
             THEN SitePagesLoop(from + 1, down, rows, cs)
             ELSE IF st.outcome = "IntegrityError"
             THEN [rows |-> rows, cs |-> cs, outcome |-> "IntegrityError"]
             ELSE SitePagesLoop(from + 1, down, st.rows, set_cursor(cs, key, h))

\* fetch_site_pages(conn)
fetch_site_pages(down) ==
    LET res == SitePagesLoop(1, down, signals, cursors)
        \* the pages fetched whose hash is not the one in their cursor
        detected == {url \in DOMAIN web.pages \ down :
                        Get(cursors, SiteSource \o ":" \o url) # Str(simple_hash(web.pages[url]))}
    IN  /\ signals' = res.rows
        /\ cursors' = res.cs
        /\ last' = [op |-> "fetch_site_pages", outcome |-> res.outcome, down |-> down,
                    detected |-> detected, ret |-> Len(res.rows) - Len(signals)]
        /\ UNCHANGED <<schema, rss_seen, actions, engine_state, ran, procs, lock,
                       object_index, pipeline, upstream, web, pdfVars>>

\* The site's owner puts a page up, or changes it.
EditPage ==
    /\ \E k \in 1..Len(GAEA_SITE_PAGES), html \in Htmls :
          /\ GAEA_SITE_PAGES[k] \in DOMAIN web.pages => web.pages[GAEA_SITE_PAGES[k]] # html
          /\ web' = [web EXCEPT !.pages = Put(@, GAEA_SITE_PAGES[k], html)]
    /\ UNCHANGED <<schema, signals, rss_seen, actions, engine_state, ran, procs, lock,
                   object_index, pipeline, cursors, upstream, pdfVars, last>>

NextGaeaSite ==
    \/ \E down \in SUBSET {GAEA_SITE_PAGES[k] : k \in 1..Len(GAEA_SITE_PAGES)} :
          fetch_site_pages(down)
    \/ EditPage

SpecGaeaSite == InitStore /\ [][NextGaeaSite]_vars

\* The stored signals of a page, in a given signals table.
PageSignals(rows, url) ==
    {i \in 1..Len(rows) : rows[i]["url"] = Str(url) /\ rows[i]["source"] = Str(SiteSource)}

C29_Step ==
    \A k \in 1..Len(GAEA_SITE_PAGES) :
        LET url == GAEA_SITE_PAGES[k]
            key == SiteSource \o ":" \o url
        IN  /\ Cardinality(PageSignals(signals', url)) <= 1
            /\ ( /\ last'.op = "fetch_site_pages" /\ last' # last
                 /\ url \in DOMAIN web.pages /\ url \notin last'.down
                 /\ PageSignals(signals, url) # {} ) =>
                   /\ Get(cursors', key) = Str(simple_hash(web.pages[url]))
                   /\ PageSignals(signals', url) = PageSignals(signals, url)

\* C29: over any number of fetch_site_pages runs at most one page_update
\* signal is stored per page URL; once it exists, a run that fetches the page
\* leaves the per-page cursor at the hash of what it fetched and stores no
\* further signal for the page.
C29_OneSignalPerPage == [][C29_Step]_vars

\* A run detected a changed page and stored nothing: the page keeps its one
\* signal and its cursor holds the new hash.
C29_Witness ==
    /\ last.op = "fetch_site_pages" /\ last.outcome = "ok" /\ last.ret = 0
    /\ \E url \in last.detected :
          /\ Cardinality(PageSignals(signals, url)) = 1
          /\ Get(cursors, SiteSource \o ":" \o url) = Str(simple_hash(web.pages[url]))

(***************************************************************************)
(* fetch_rss.run, entry by entry: insert_signal commits, then mark_seen    *)
(***************************************************************************)
\* Mutant: only an empty text is filtered out.
too_short_empty(text) == text = ""

\* `if not text or len(text.strip()) < 120: continue`
too_short(text) ==
    \/ text = ""
    \/ Len(IF InTable(StripTable, text) THEN Lookup(StripTable, text) ELSE Strip(text))
          < MinTextLen

\* hv = sha(url + "||" + title)
entry_hash(url, title) == sha(url \o "||" \o title)

\* run() on one entry, up to the commit of insert_signal: the filter,
\* already_seen, parse_ts and the plain INSERT; IntegrityError ends the run.
fetch_rss_insert(p, e) ==
    LET hv == entry_hash(e.link, e.title)
        ts == IF e.published # "" THEN e.published ELSE NowTs.s
        res == PlainInsert(schema, signals,
                           fetch_rss_insert_vals(ts, FeedSrc, e.title, e.summary, e.link))
        outcome == IF too_short(e.summary) THEN "skipped_short"
                   ELSE IF hv \in rss_seen THEN "already_seen"
                   ELSE res.outcome
    IN  /\ procs[p].pc = "idle"
        /\ signals' = IF outcome \in {"skipped_short", "already_seen"} THEN signals
                      ELSE res.rows
        /\ Len(signals') <= MaxSignals
        /\ procs' = IF outcome = "inserted"
                    THEN [procs EXCEPT ![p] = [pc |-> "mark_seen", hv |-> hv]]
                    ELSE procs
        /\ last' = [op |-> "fetch_rss", outcome |-> outcome, hv |-> hv, e |-> e]
        /\ UNCHANGED <<schema, rss_seen, actions, engine_state, ran, lock, object_index,
                       pipeline, akashVars>>

\* mark_seen(hv): INSERT OR IGNORE INTO rss_seen, committed.
fetch_rss_mark_seen(p) ==
    /\ procs[p].pc = "mark_seen"
    /\ rss_seen' = rss_seen \cup {procs[p].hv}
    /\ procs' = [procs EXCEPT ![p] = IdleProc]
    /\ UNCHANGED <<schema, signals, actions, engine_state, ran, lock, object_index,
                   pipeline, akashVars, last>>

\* The process dies between insert_signal and mark_seen.
fetch_rss_crash(p) ==
    /\ procs[p].pc = "mark_seen"
    /\ procs' = [procs EXCEPT ![p] = IdleProc]
    /\ last' = [op |-> "fetch_rss", outcome |-> "crashed", hv |-> procs[p].hv,
                e |-> last.e]
    /\ UNCHANGED <<schema, signals, rss_seen, actions, engine_state, ran, lock,
                   object_index, pipeline, akashVars>>

RssEntries == FeedEntries \cup RepublishedEntries

NextFetchRss ==
    \/ \E p \in Procs, e \in RssEntries : fetch_rss_insert(p, e)
    \/ \E p \in Procs : fetch_rss_mark_seen(p)
    \/ \E p \in Procs : fetch_rss_crash(p)

SpecFetchRss == InitStore /\ [][NextFetchRss]_vars

\* A stored signal of fetch_rss whose url and title hash to hv.
HasSignal(rows, hv) ==
    \E i \in 1..Len(rows) :
        /\ rows[i]["source"] = Str("rss")
        /\ entry_hash(StrOf(rows[i]["url"]), StrOf(rows[i]["title"])) = hv

\* An entry whose text, stripped, has fewer than 120 characters.
C28_Short(e) == Len(Strip(e.summary)) < 120

C28_Step ==
    \* a hash is marked only when its signal row is already committed
    /\ \A hv \in rss_seen' \ rss_seen : HasSignal(signals, hv)
    /\ \A hv \in rss_seen' : HasSignal(signals', hv)
    \* a short entry is neither stored nor marked
    /\ \A e \in RssEntries :
          C28_Short(e) =>
              /\ entry_hash(e.link, e.title) \notin rss_seen'
              /\ ~HasSignal(signals', entry_hash(e.link, e.title))
    \* an entry that is long enough and not marked is inserted again
    /\ \A p \in Procs, e \in RssEntries :
          ( /\ fetch_rss_insert(p, e)
            /\ ~C28_Short(e)
            /\ entry_hash(e.link, e.title) \notin rss_seen ) =>
              last'.outcome \in {"inserted", "IntegrityError"}

\* C28: a hash enters rss_seen only after its signal row has been committed,
\* so every hash in rss_seen has a stored signal; an entry whose stripped text
\* is shorter than 120 characters is neither stored nor marked; and after a
\* crash between insert_signal and mark_seen the next run, finding the hash
\* unmarked, runs the INSERT for the same entry again.
C28_SeenOnlyAfterInsert == [][C28_Step]_vars

\* After a crash between the insert and mark_seen, a later run has tried the
\* INSERT of the same entry again: its row is stored, its hash is not marked.
C28_Witness ==
    /\ last.op = "fetch_rss" /\ last.outcome = "IntegrityError"
    /\ \A p \in Procs : procs[p].pc = "idle"
    /\ last.hv \notin rss_seen
    /\ HasSignal(signals, last.hv)

(***************************************************************************)
(* pdf_ingest.ingest_one, commit by commit                                 *)
(***************************************************************************)
\* Files in the inbox: name, sha256 of the content, pages pdftoppm renders.
\* a-copy.pdf has the content of a.pdf; empty.pdf renders to no page.
Pdfs ==
    { [name |-> "a.pdf", sha |-> "sha-a", npages |-> 2],
      [name |-> "a-copy.pdf", sha |-> "sha-a", npages |-> 2],
      [name |-> "b.pdf", sha |-> "sha-b", npages |-> 1],
      [name |-> "empty.pdf", sha |-> "sha-e", npages |-> 0] }

\* The process that runs pdf_ingest.main.
Ingester == "p1"

\* SELECT id, status, pages FROM documents WHERE sha256 = ?: the id, or 0.
DocIdOf(docs, sha256) ==
    IF \E i \in 1..Len(docs) : docs[i].sha256 = sha256
    THEN CHOOSE i \in 1..Len(docs) : docs[i].sha256 = sha256
    ELSE 0

\* Mutant: the early return is never taken.
is_done_never(row) == FALSE

\* `row[1] == "done" and int(row[2] or 0) > 0`
is_done(row) == row.status = "done" /\ row.pages > 0

\* PAGES_DIR.glob("doc{doc_id}-*.png"), as the page numbers.
glob_pages(dir, doc_id) == {f[2] : f \in {g \in dir : g[1] = doc_id}}

\* ingest_one up to the first commit: ensure_tools, the lookup by sha256, the
\* early return for a done document, else the row reused or inserted with
\* status "new" and its pages wiped.
ingest_begin(f, tools) ==
    LET id == DocIdOf(documents, f.sha)
        doc_id == IF id # 0 THEN id ELSE Len(documents) + 1
        row == [sha256 |-> f.sha, filename |-> f.name, status |-> "new",
                pages |-> IF id # 0 THEN documents[id].pages ELSE 0, err |-> ""]
        was == IF id # 0 THEN documents[id].status ELSE "none"
    IN  /\ procs[Ingester].pc = "idle"
        /\ IF ~tools
           THEN /\ last' = [op |-> "ingest_one", outcome |-> "SystemExit", ret |-> 0,
                            f |-> f, was |-> was]
                /\ UNCHANGED <<procs, documents, doc_pages>>
           ELSE IF id # 0 /\ is_done(documents[id])
           THEN /\ last' = [op |-> "ingest_one", outcome |-> "exists", ret |-> id,
                            f |-> f, was |-> was]
                /\ UNCHANGED <<procs, documents, doc_pages>>
           ELSE /\ documents' = IF id # 0 THEN [documents EXCEPT ![id] = row]
                                ELSE Append(documents, row)
                /\ doc_pages' = SelectSeq(doc_pages, LAMBDA r : r.doc_id # doc_id)
                /\ procs' = [procs EXCEPT ![Ingester] =
                               [pc |-> "new", doc_id |-> doc_id, f |-> f, was |-> was]]
                /\ UNCHANGED last
        /\ UNCHANGED <<schema, signals, rss_seen, actions, engine_state, ran, lock,
                       object_index, pipeline, cursors, upstream, web, pages_dir>>

\* UPDATE documents SET status = 'rendering'; commit.
ingest_rendering ==
    LET pr == procs[Ingester]
    IN  /\ pr.pc = "new"
        /\ documents' = [documents EXCEPT ![pr.doc_id].status = "rendering"]
        /\ procs' = [procs EXCEPT ![Ingester].pc = "rendering"]
        /\ UNCHANGED <<schema, signals, rss_seen, actions, engine_state, ran, lock,
                       object_index, pipeline, cursors, upstream, web, doc_pages,
                       pages_dir, last>>

\* run_pdftoppm and what follows it. pdftoppm writes the first `written`
\* pages; it fails unless it wrote them all. On success the images are
\* counted and recorded with status "done" in one commit; a failure, or no
\* image at all, is recorded as status "error" and raised again.
ingest_render(written) ==
    LET pr == procs[Ingester]
        dir == pages_dir \cup {<<pr.doc_id, k>> : k \in 1..written}
        imgs == glob_pages(dir, pr.doc_id)
        n_pages == Cardinality(imgs)
        failed == written < pr.f.npages \/ n_pages = 0
    IN  /\ pr.pc = "rendering"
        /\ written \in 0..pr.f.npages
        /\ pages_dir' = dir
        /\ IF failed
           THEN /\ documents' = [documents EXCEPT ![pr.doc_id].status = "error",
                                                  ![pr.doc_id].err =
                                                      IF written < pr.f.npages
                                                      THEN "CalledProcessError"
                                                      ELSE "pdftoppm produced zero pages"]
                /\ UNCHANGED doc_pages
           ELSE /\ documents' = [documents EXCEPT ![pr.doc_id].status = "done",
                                                  ![pr.doc_id].pages = n_pages]
                /\ doc_pages' = doc_pages \o
                                [k \in 1..n_pages |-> [doc_id |-> pr.doc_id, page |-> k]]
        /\ last' = [op |-> "ingest_one", outcome |-> IF failed THEN "error" ELSE "ok",
                    ret |-> IF failed THEN 0 ELSE pr.doc_id, f |-> pr.f, was |-> pr.was]
        /\ procs' = [procs EXCEPT ![Ingester] = IdleProc]
        /\ UNCHANGED <<schema, signals, rss_seen, actions, engine_state, ran, lock,
                       object_index, pipeline, cursors, upstream, web>>

\* The process is killed between two commits.
ingest_kill ==
    /\ procs[Ingester].pc \in {"new", "rendering"}
    /\ procs' = [procs EXCEPT ![Ingester] = IdleProc]
    /\ last' = [op |-> "ingest_one", outcome |-> "killed", ret |-> 0,
                f |-> procs[Ingester].f, was |-> procs[Ingester].was]
    /\ UNCHANGED <<schema, signals, rss_seen, actions, engine_state, ran, lock,
                   object_index, pipeline, akashVars>>

NextPdfIngest ==
    \/ \E f \in Pdfs, tools \in BOOLEAN : ingest_begin(f, tools)
    \/ ingest_rendering
    \/ \E written \in 0..2 : ingest_render(written)
    \/ ingest_kill

SpecPdfIngest == InitStore /\ [][NextPdfIngest]_vars

\* The doc_pages rows of a document.
PagesOf(pages, id) == {k \in 1..Len(pages) : pages[k].doc_id = id}

C30_Step ==
    \* one row per sha256; a done document has its pages
    /\ \A i, j \in 1..Len(documents') :
          documents'[i].sha256 = documents'[j].sha256 => i = j
    /\ \A i \in 1..Len(documents') :
          documents'[i].status = "done" =>
              /\ documents'[i].pages > 0
              /\ Cardinality(PagesOf(doc_pages', i)) = documents'[i].pages
    \* a done document is left alone and its id is returned
    /\ \A i \in 1..Len(documents) :
          documents[i].status = "done" =>
              /\ documents'[i] = documents[i]
              /\ PagesOf(doc_pages', i) = PagesOf(doc_pages, i)
              /\ \A f \in Pdfs, tools \in BOOLEAN :
                    (ingest_begin(f, tools) /\ tools /\ f.sha = documents[i].sha256) =>
                        (last'.outcome = "exists" /\ last'.ret = i)
    \* a failed ingest ends in status "error"
    /\ (last' # last /\ last'.outcome = "error") =>
          documents'[DocIdOf(documents', last'.f.sha)].status = "error"
    \* a row is reused, its pages wiped, and it goes new, rendering, done
    /\ Len(documents') >= Len(documents)
    /\ \A i \in 1..Len(documents') :
          LET now == documents'[i].status
              before == IF i <= Len(documents) THEN documents[i].status ELSE "none"
          IN  now # before =>
                  \/ /\ now = "new" /\ before # "done"
                     /\ PagesOf(doc_pages', i) = {}
                  \/ now = "rendering" /\ before = "new"
                  \/ now \in {"done", "error"} /\ before = "rendering"

\* C30: in every committed state there is at most one documents row per
\* sha256 and a "done" document has pages > 0 and exactly that many doc_pages
\* rows; ingesting a file whose document is "done" changes nothing and returns
\* its id; an ingest whose rendering fails ends with status "error"; a later
\* ingest of the same content reuses the row, wipes its pages and takes it
\* through "new", "rendering" and "done".
C30_OneDocumentPerSha == [][C30_Step]_vars

\* A document that had failed was ingested again, under another file name,
\* into the same row and is done with its two pages.
C30_Witness ==
    /\ last.op = "ingest_one" /\ last.outcome = "ok" /\ last.was = "error"
    /\ last.f.name = "a-copy.pdf"
    /\ documents[last.ret].status = "done" /\ documents[last.ret].pages = 2
    /\ Cardinality(PagesOf(doc_pages, last.ret)) = 2
    /\ Cardinality({i \in 1..Len(documents) : documents[i].sha256 = "sha-a"}) = 1

====
